---- MODULE Spec2Model ----
(***************************************************************************)
(* clerk: the draft/send pipeline (smtp_client.py, mcp_server.py,          *)
(* drafts.py, api.py, cli.py) and the store mirror of the facade           *)
(* (api.py, cache.py, imap_client.py), as a state machine.                 *)
(*                                                                         *)
(* Time is the wall clock time.time() in whole seconds, read as a          *)
(* non-decreasing value.  Random identifiers (secrets.token_hex,           *)
(* make_msgid, generate_draft_id) are fresh values taken from counters.    *)
(***************************************************************************)
EXTENDS Integers, Sequences, FiniteSets, TLC

\* ------------------------------------------------------------------ bounds
MaxUnit == 1
MaxFive == 1
MaxHour == 1
MaxPerHour == 2
MaxDrafts == 2
MaxSendDrafts == 1
MaxTokens == 2
MaxDispatch == 3
MaxGateDispatch == 2
MaxGateTokens == 1
MaxFolders == 2
MaxSmtpSeconds == 1
MaxSessions == 1
MaxRaceDrafts == 3

\* ------------------------------------------------------- program constants
CONFIRMATION_TOKEN_EXPIRY_SECONDS == 300
HourSeconds == 3600

None == "None"
\* an optional value that is not a string: absent, or present
Nothing == <<>>
Some(x) == <<x>>
INBOX == "INBOX"
ValueError == "ValueError"

\* The instants the clock is observed at: grids around the boundaries of
\* the token lifetime and of the rate window.
TokenTimes ==
    { u + CONFIRMATION_TOKEN_EXPIRY_SECONDS * f : u \in 0..MaxUnit, f \in 0..MaxFive }
RateTimes ==
    { u + HourSeconds * h : u \in 0..MaxUnit, h \in 0..MaxHour }

\* ----------------------------------------------------------- configuration
\* Configured accounts (ClerkConfig.accounts) and the default account.
Accounts == {"a1", "a2"}
default_account == "a1"
\* Any string can be written into Draft.account or passed as a target.
AccountNames == Accounts \cup {"ghost"}

\* Addresses are character sequences, so that str.lower() is a real map.
Bob == <<"b", "@", "x">>
Carol == <<"c", "@", "x">>
SpamLower == <<"s", "@", "x">>
SpamUpper == <<"S", "@", "X">>
SpamMixed == <<"S", "@", "x">>

\* config.send.blocked_recipients
blocked_recipients == <<SpamMixed>>

LowerChar(c) ==
    CASE c = "B" -> "b"
      [] c = "C" -> "c"
      [] c = "E" -> "e"
      [] c = "R" -> "r"
      [] c = "S" -> "s"
      [] c = "X" -> "x"
      [] OTHER -> c

Lower(s) == [i \in 1..Len(s) |-> LowerChar(s[i])]

SeqToSet(s) == {s[i] : i \in 1..Len(s)}

\* Tables are functions on the set of keys present.
Put(f, k, v) == [x \in DOMAIN f \cup {k} |-> IF x = k THEN v ELSE f[x]]
Remove(f, k) == [x \in DOMAIN f \ {k} |-> f[x]]
\* counters kept as tables: absent is 0
Count(f, k) == IF k \in DOMAIN f THEN f[k] ELSE 0
Bump(f, k) == Put(f, k, Count(f, k) + 1)

\* ------------------------------------------------------------------- state
VARIABLES
    now,            \* time.time()
    drafts,         \* drafts table: draft_id -> row
    next_draft,     \* number of draft ids generated so far
    tokens,         \* _confirmation_tokens: draft_id -> (token, expiry)
    next_token,     \* number of tokens generated so far
    rate_limiters,  \* _rate_limiters: account -> deque of timestamps
    send_log,       \* send_log table, in id order
    next_msgid,     \* number of Message-IDs generated so far
    issued_for,     \* history: token -> the draft_id it was generated for
    previews,       \* history: token -> the draft its preview was made of
    validations,    \* history: (draft_id, token) -> successful validations
    token_sends,    \* history: token -> SMTP dispatches made under it
    messages,       \* messages table of the store: message_id -> row
    server,         \* the IMAP mailbox: (folder, message_id) -> flags
    server_folders, \* the folders the IMAP server lists
    cache_meta,     \* cache_meta table: key -> the time it was written
    sessions,       \* IMAP connections opened and not closed since
    workers,        \* the parallel workers: where each is in its call
    last            \* the last call and what it returned

vars == <<now, drafts, next_draft, tokens, next_token, rate_limiters,
          send_log, next_msgid, issued_for, previews, validations, token_sends,
          messages, server, server_folders, cache_meta, sessions, workers, last>>

\* the history of the confirmation tokens
hist == <<issued_for, previews, validations, token_sends>>

\* the mail: the mirrored messages and the server they mirror
mail == <<messages, server, server_folders, cache_meta, sessions>>

\* the IMAP side
imap == <<server, server_folders, sessions>>

\* everything of the draft/send pipeline
pipeline == <<now, drafts, next_draft, tokens, next_token, rate_limiters,
              send_log, next_msgid, hist, workers>>

DraftIds == 1..MaxDrafts

\* Draft contents a caller supplies.
DraftContents ==
    { [to |-> <<Bob>>,       cc |-> <<>>,          bcc |-> <<>>,          subject |-> "hello"],
      [to |-> <<Carol>>,     cc |-> <<>>,          bcc |-> <<>>,          subject |-> "other"],
      [to |-> <<SpamUpper>>, cc |-> <<>>,          bcc |-> <<>>,          subject |-> "hello"],
      [to |-> <<Bob>>,       cc |-> <<SpamLower>>, bcc |-> <<>>,          subject |-> "hello"],
      [to |-> <<Bob>>,       cc |-> <<>>,          bcc |-> <<SpamMixed>>, subject |-> "hello"] }

MkDraft(id, account, c) ==
    [draft_id |-> id, account |-> account,
     to |-> c.to, cc |-> c.cc, bcc |-> c.bcc, subject |-> c.subject]

\* the parallel workers of the process, and a worker that runs no call
Workers == {"w1", "w2"}
Idle ==
    [pc |-> "idle", op |-> "none", draft_id |-> 0, token |-> 0, stored_token |-> 0,
     expiry |-> 0, draft |-> Nothing, name |-> None, message_id |-> 0]

NoLast ==
    [op |-> "init", draft_id |-> 0, status |-> "none", error |-> "none",
     account |-> None, step |-> 0, token |-> 0, expires_in |-> 0,
     validation |-> "none", dispatched |-> FALSE, message_id |-> 0,
     msg |-> None, from_folder |-> None, to_folder |-> None, effects |-> <<>>,
     result |-> Nothing, count |-> 0, from_cache |-> FALSE, fresh |-> FALSE,
     fetched |-> {}, prefix |-> <<>>, window_days |-> 0, conversation |-> Nothing]

Init ==
    /\ now = 0
    /\ drafts = <<>>
    /\ next_draft = 0
    /\ tokens = <<>>
    /\ next_token = 0
    /\ rate_limiters = [a \in AccountNames |-> <<>>]
    /\ send_log = <<>>
    /\ next_msgid = 0
    /\ issued_for = <<>>
    /\ previews = <<>>
    /\ validations = <<>>
    /\ token_sends = <<>>
    /\ messages = <<>>
    /\ server = <<>>
    /\ server_folders = {INBOX}
    /\ cache_meta = <<>>
    /\ sessions = 0
    /\ workers = [w \in Workers |-> Idle]
    /\ last = NoLast

\* ------------------------------------------------------------ rate limiter
\* deque.popleft() while timestamps[0] < hour_ago
RECURSIVE Evict(_, _)
Evict(ts, hour_ago) ==
    IF ts # <<>> /\ ts[1] < hour_ago THEN Evict(Tail(ts), hour_ago) ELSE ts

\* as RateLimiter.can_send, but a full deque still admits one send
can_send_inclusive(ts, t) ==
    LET kept == Evict(ts, t - HourSeconds)
    IN [timestamps |-> kept, ok |-> Len(kept) <= MaxPerHour]

\* as RateLimiter.can_send, but no timestamp is ever dropped: a lockout
can_send_lockout(ts, t) == [timestamps |-> ts, ok |-> Len(ts) < MaxPerHour]

\* RateLimiter.can_send: the deque after eviction, and the answer
can_send(ts, t) ==
    LET kept == Evict(ts, t - HourSeconds)
    IN [timestamps |-> kept, ok |-> Len(kept) < MaxPerHour]

\* RateLimiter.remaining
remaining(ts, t) ==
    LET kept == Evict(ts, t - HourSeconds)
    IN IF MaxPerHour - Len(kept) > 0 THEN MaxPerHour - Len(kept) ELSE 0

\* RateLimiter.record_send
record_send(ts, t) == Append(ts, t)

\* ---------------------------------------------------------------- the gate
\* ClerkConfig.get_account(name): the name of the account found, or ValueError
get_account(name) ==
    LET n == IF name = None THEN default_account ELSE name
    IN IF n \in Accounts THEN n ELSE ValueError

Recipients(draft) == draft.to \o draft.cc \o draft.bcc

\* as check_send_allowed, but draft.account is not compared with the target
check_skips_mismatch(draft, account_name, ts, t) ==
    LET cs == can_send(ts, t)
        blocked == {Lower(b) : b \in SeqToSet(blocked_recipients)}
    IN IF ~cs.ok
         THEN [ok |-> FALSE, reason |-> "rate", timestamps |-> cs.timestamps]
       ELSE IF \E i \in 1..Len(Recipients(draft)) : Lower(Recipients(draft)[i]) \in blocked
         THEN [ok |-> FALSE, reason |-> "blocklist", timestamps |-> cs.timestamps]
       ELSE IF get_account(account_name) = ValueError
         THEN [ok |-> FALSE, reason |-> "raise", timestamps |-> cs.timestamps]
       ELSE [ok |-> TRUE, reason |-> "none", timestamps |-> cs.timestamps]

\* as check_send_allowed, but only the To recipients are looked up
check_blocks_to_only(draft, account_name, ts, t) ==
    LET cs == can_send(ts, t)
        blocked == {Lower(b) : b \in SeqToSet(blocked_recipients)}
    IN IF ~cs.ok
         THEN [ok |-> FALSE, reason |-> "rate", timestamps |-> cs.timestamps]
       ELSE IF \E i \in 1..Len(draft.to) : Lower(draft.to[i]) \in blocked
         THEN [ok |-> FALSE, reason |-> "blocklist", timestamps |-> cs.timestamps]
       ELSE IF get_account(account_name) = ValueError
         THEN [ok |-> FALSE, reason |-> "raise", timestamps |-> cs.timestamps]
       ELSE IF draft.account # account_name
         THEN [ok |-> FALSE, reason |-> "mismatch", timestamps |-> cs.timestamps]
       ELSE [ok |-> TRUE, reason |-> "none", timestamps |-> cs.timestamps]

\* check_send_allowed(draft, account_name) at time t with the account's deque ts
check_send_allowed(draft, account_name, ts, t) ==
    LET cs == can_send(ts, t)
        blocked == {Lower(b) : b \in SeqToSet(blocked_recipients)}
    IN IF ~cs.ok
         THEN [ok |-> FALSE, reason |-> "rate", timestamps |-> cs.timestamps]
       ELSE IF \E i \in 1..Len(Recipients(draft)) : Lower(Recipients(draft)[i]) \in blocked
         THEN [ok |-> FALSE, reason |-> "blocklist", timestamps |-> cs.timestamps]
       ELSE IF get_account(account_name) = ValueError
         THEN [ok |-> FALSE, reason |-> "raise", timestamps |-> cs.timestamps]
       ELSE IF draft.account # account_name
         THEN [ok |-> FALSE, reason |-> "mismatch", timestamps |-> cs.timestamps]
       ELSE [ok |-> TRUE, reason |-> "none", timestamps |-> cs.timestamps]

\* ------------------------------------------------------------------- clock
\* the instants of T an SMTP conversation begun at t can end at
SendEnds(t, T) == {t2 \in T : t <= t2 /\ t2 <= t + MaxSmtpSeconds}

\* the clock moves on to a later instant of T
Tick(T) ==
    /\ \E t \in T : t > now /\ now' = t
    /\ last' = [NoLast EXCEPT !.op = "tick"]
    /\ UNCHANGED <<drafts, next_draft, tokens, next_token, rate_limiters,
                   send_log, next_msgid, hist, mail, workers>>

\* ------------------------------------------------------------------ drafts
\* DraftManager.create: a fresh draft_id, then _save
CreateDraft(account, c) ==
    /\ next_draft' = next_draft + 1
    /\ drafts' = Put(drafts, next_draft + 1, MkDraft(next_draft + 1, account, c))
    /\ last' = [NoLast EXCEPT !.op = "create", !.draft_id = next_draft + 1, !.status = "ok"]
    /\ UNCHANGED <<now, tokens, next_token, rate_limiters, send_log, next_msgid, hist, mail, workers>>

\* as _save, but UPDATE ... WHERE draft_id: a draft without a row is not
\* saved
save_existing(dr, draft) ==
    IF draft.draft_id \in DOMAIN dr THEN Put(dr, draft.draft_id, draft) ELSE dr

\* DraftManager._save: INSERT OR REPLACE INTO drafts, keyed by draft_id
save(dr, draft) == Put(dr, draft.draft_id, draft)

\* DraftManager.update (ClerkAPI.update_draft) of a Draft object the caller
\* holds, whose id was given by a create
UpdateDraft(d, account, c) ==
    /\ d \in 1..next_draft
    /\ drafts' = save(drafts, MkDraft(d, account, c))
    /\ last' = [NoLast EXCEPT !.op = "update", !.draft_id = d, !.status = "ok"]
    /\ UNCHANGED <<now, next_draft, tokens, next_token, rate_limiters, send_log,
                   next_msgid, hist, mail, workers>>

\* DraftManager.delete (ClerkAPI.delete_draft, cli draft delete)
DeleteDraft(d) ==
    /\ drafts' = Remove(drafts, d)
    /\ last' = [NoLast EXCEPT !.op = "delete", !.draft_id = d,
                              !.status = IF d \in DOMAIN drafts THEN "deleted" ELSE "not_found"]
    /\ UNCHANGED <<now, next_draft, tokens, next_token, rate_limiters, send_log,
                   next_msgid, hist, mail, workers>>

\* mcp_server.clerk_delete_draft: also drops the pending confirmation token
ClerkDeleteDraft(d) ==
    /\ drafts' = Remove(drafts, d)
    /\ tokens' = IF d \in DOMAIN drafts THEN Remove(tokens, d) ELSE tokens
    /\ last' = [NoLast EXCEPT !.op = "clerk_delete_draft", !.draft_id = d,
                              !.status = IF d \in DOMAIN drafts THEN "deleted" ELSE "not_found"]
    /\ UNCHANGED <<now, next_draft, next_token, rate_limiters, send_log,
                   next_msgid, hist, mail, workers>>

\* ------------------------------------------------------ confirmation tokens
\* _cleanup_expired_tokens at time t
cleanup_expired_tokens(tk, t) ==
    [k \in {x \in DOMAIN tk : ~(t > tk[x].expiry)} |-> tk[k]]

\* _generate_confirmation_token: the table after storing fresh token tok
generate_confirmation_token(tk, d, tok, t) ==
    Put(tk, d, [token |-> tok, expiry |-> t + CONFIRMATION_TOKEN_EXPIRY_SECONDS])

\* as _validate_confirmation_token, but the presented token is not compared
validate_skips_compare(tk, d, token, t) ==
    IF d \notin DOMAIN tk
      THEN [valid |-> FALSE, error |-> "no_token", tokens |-> tk]
    ELSE IF t > tk[d].expiry
      THEN [valid |-> FALSE, error |-> "expired", tokens |-> Remove(tk, d)]
    ELSE [valid |-> TRUE, error |-> "none", tokens |-> Remove(tk, d)]

\* as _validate_confirmation_token, but the token is left in the table
validate_keeps_token(tk, d, token, t) ==
    IF d \notin DOMAIN tk
      THEN [valid |-> FALSE, error |-> "no_token", tokens |-> tk]
    ELSE IF t > tk[d].expiry
      THEN [valid |-> FALSE, error |-> "expired", tokens |-> Remove(tk, d)]
    ELSE IF token # tk[d].token
      THEN [valid |-> FALSE, error |-> "invalid_token", tokens |-> tk]
    ELSE [valid |-> TRUE, error |-> "none", tokens |-> tk]

\* as _validate_confirmation_token, but a wrong token consumes the entry
validate_consumes_on_mismatch(tk, d, token, t) ==
    IF d \notin DOMAIN tk
      THEN [valid |-> FALSE, error |-> "no_token", tokens |-> tk]
    ELSE IF t > tk[d].expiry
      THEN [valid |-> FALSE, error |-> "expired", tokens |-> Remove(tk, d)]
    ELSE IF token # tk[d].token
      THEN [valid |-> FALSE, error |-> "invalid_token", tokens |-> Remove(tk, d)]
    ELSE [valid |-> TRUE, error |-> "none", tokens |-> Remove(tk, d)]

\* _validate_confirmation_token at time t: the verdict and the table left
validate_confirmation_token(tk, d, token, t) ==
    IF d \notin DOMAIN tk
      THEN [valid |-> FALSE, error |-> "no_token", tokens |-> tk]
    ELSE IF t > tk[d].expiry
      THEN [valid |-> FALSE, error |-> "expired", tokens |-> Remove(tk, d)]
    ELSE IF token # tk[d].token
      THEN [valid |-> FALSE, error |-> "invalid_token", tokens |-> tk]
    ELSE [valid |-> TRUE, error |-> "none", tokens |-> Remove(tk, d)]

\* a direct call of _validate_confirmation_token(draft_id, token)
ValidateToken(d, token) ==
    LET v == validate_confirmation_token(tokens, d, token, now)
    IN /\ tokens' = v.tokens
       /\ validations' = IF v.valid THEN Bump(validations, <<d, token>>) ELSE validations
       /\ last' = [NoLast EXCEPT !.op = "validate", !.draft_id = d, !.token = token,
                                 !.validation = IF v.valid THEN "passed" ELSE "failed",
                                 !.error = v.error,
                                 !.status = IF v.valid THEN "valid" ELSE "error"]
       /\ UNCHANGED <<now, drafts, next_draft, next_token, rate_limiters, send_log,
                      next_msgid, issued_for, previews, token_sends, mail, workers>>

\* -------------------------------------------------------------- send_draft
SmtpOutcomes == {"ok", "auth_failed", "smtp_error", "io_error"}

\* as Cache.log_send, but INSERT OR REPLACE on the account
log_send_replaces(log, draft, name, message_id, t) ==
    Append(SelectSeq(log, LAMBDA r : r.account # name),
           [timestamp |-> t, account |-> name, to |-> draft.to, cc |-> draft.cc,
            bcc |-> draft.bcc, subject |-> draft.subject, message_id |-> message_id])

\* Cache.log_send: INSERT INTO send_log, the table after it
log_send(log, draft, name, message_id, t) ==
    Append(log, [timestamp |-> t, account |-> name, to |-> draft.to, cc |-> draft.cc,
                 bcc |-> draft.bcc, subject |-> draft.subject, message_id |-> message_id])

\* as the tail of send_draft, but without the test of result.success
apply_result_always(success, draft, name, rl, log, dr, mid, t) ==
    [rate_limiters |-> [rl EXCEPT ![name] = record_send(@, t)],
     send_log |-> log_send(log, draft, name, mid, t),
     drafts |-> Remove(dr, draft.draft_id)]

\* as the tail of send_draft, but the draft is kept
apply_result_keeps_draft(success, draft, name, rl, log, dr, mid, t) ==
    IF success
      THEN [rate_limiters |-> [rl EXCEPT ![name] = record_send(@, t)],
            send_log |-> log_send(log, draft, name, mid, t),
            drafts |-> dr]
      ELSE [rate_limiters |-> rl, send_log |-> log, drafts |-> dr]

\* the tail of send_draft: what the result of SmtpClient.send leaves in the
\* rate limiters, the send log and the drafts
apply_result(success, draft, name, rl, log, dr, mid, t) ==
    IF success
      THEN [rate_limiters |-> [rl EXCEPT ![name] = record_send(@, t)],
            send_log |-> log_send(log, draft, name, mid, t),
            drafts |-> Remove(dr, draft.draft_id)]
      ELSE [rate_limiters |-> rl, send_log |-> log, drafts |-> dr]

\* smtp_client.send_draft(draft_id, account_name), entered with the rate
\* limiters rl; the SMTP conversation ends with some outcome at an instant
\* of T.  op, tok and validated describe the caller for the record of the
\* call; last.account is the account the gate was asked about.
send_draft(op, d, account_name, rl, T, tok, validated) ==
    LET base == [NoLast EXCEPT !.op = op, !.draft_id = d, !.token = tok,
                               !.step = IF validated THEN 2 ELSE 0,
                               !.validation = IF validated THEN "passed" ELSE "none",
                               !.status = "failed"]
        fail(b, err, rl2) ==
            /\ last' = [b EXCEPT !.error = err]
            /\ rate_limiters' = rl2
            /\ UNCHANGED <<now, drafts, send_log, next_msgid, token_sends>>
    IN IF d \notin DOMAIN drafts THEN fail(base, "not_found", rl)
       ELSE
         LET draft == drafts[d]
             name == get_account(IF account_name = None THEN draft.account ELSE account_name)
         IN IF name = ValueError THEN fail(base, "unknown_account", rl)
            ELSE
              LET chk == check_send_allowed(draft, name, rl[name], now)
                  rl2 == [rl EXCEPT ![name] = chk.timestamps]
                  mid == next_msgid + 1
                  gated == [base EXCEPT !.account = name]
              IN IF ~chk.ok THEN fail(gated, chk.reason, rl2)
                 ELSE \E outcome \in SmtpOutcomes, t2 \in SendEnds(now, T) :
                   LET ok == outcome = "ok"
                       r == apply_result(ok, draft, name, rl2, send_log, drafts, mid, t2)
                   IN /\ now' = t2
                      /\ next_msgid' = mid
                      /\ token_sends' = IF tok # 0 THEN Bump(token_sends, tok) ELSE token_sends
                      /\ rate_limiters' = r.rate_limiters
                      /\ send_log' = r.send_log
                      /\ drafts' = r.drafts
                      /\ last' = [gated EXCEPT !.dispatched = TRUE,
                                    !.status = IF ok THEN "sent" ELSE "failed",
                                    !.error = IF ok THEN "none" ELSE outcome,
                                    !.message_id = IF ok THEN mid ELSE 0]

\* a direct call of smtp_client.send_draft(draft_id, account_name)
SendDraft(d, account_name, T) ==
    /\ send_draft("send_draft", d, account_name, rate_limiters, T, 0, FALSE)
    /\ UNCHANGED <<next_draft, tokens, next_token, issued_for, previews, validations, mail, workers>>

\* A caller that runs check_send_allowed(draft, draft.account) itself and
\* then calls send_draft(draft_id): ClerkAPI.send_draft (skip = FALSE) and
\* the cli send command (proceed = FALSE: the user answers no).
checked_send(op, d, skip, proceed, T, tok, validated) ==
    IF d \notin DOMAIN drafts
      THEN /\ last' = [NoLast EXCEPT !.op = op, !.draft_id = d, !.status = "failed",
                                     !.error = "not_found"]
           /\ UNCHANGED <<now, drafts, rate_limiters, send_log, next_msgid, token_sends>>
    ELSE IF skip
      THEN send_draft(op, d, None, rate_limiters, T, tok, validated)
    ELSE
      LET draft == drafts[d]
          chk == check_send_allowed(draft, draft.account, rate_limiters[draft.account], now)
          rl2 == [rate_limiters EXCEPT ![draft.account] = chk.timestamps]
      IN IF ~chk.ok \/ ~proceed
           THEN /\ last' = [NoLast EXCEPT !.op = op, !.draft_id = d,
                                !.status = IF chk.reason = "raise" THEN "raised"
                                           ELSE IF chk.ok THEN "cancelled" ELSE "failed",
                                !.error = chk.reason, !.account = draft.account]
                /\ rate_limiters' = rl2
                /\ UNCHANGED <<now, drafts, send_log, next_msgid, token_sends>>
           ELSE send_draft(op, d, None, rl2, T, tok, validated)

\* ClerkAPI.send_draft(draft_id, skip_confirmation)
ApiSendDraft(d, skip, T) ==
    /\ checked_send("api_send_draft", d, skip, TRUE, T, 0, FALSE)
    /\ UNCHANGED <<next_draft, tokens, next_token, issued_for, previews, validations, mail, workers>>

\* cli.send(draft_id, yes)
CliSend(d, proceed, T) ==
    /\ checked_send("cli_send", d, FALSE, proceed, T, 0, FALSE)
    /\ UNCHANGED <<next_draft, tokens, next_token, issued_for, previews, validations, mail, workers>>

\* smtp_client.format_draft_preview(draft): the From, To, Cc, Bcc and
\* Subject lines of the draft
format_draft_preview(draft) ==
    [from |-> draft.account, to |-> draft.to, cc |-> draft.cc, bcc |-> draft.bcc,
     subject |-> draft.subject]

\* mcp_server.clerk_send(draft_id, confirm, token); token 0 is no token
clerk_send(d, confirm, token, T) ==
    LET tk1 == cleanup_expired_tokens(tokens, now)
        base == [NoLast EXCEPT !.op = "clerk_send", !.draft_id = d, !.status = "error"]
        gated == [base EXCEPT !.step = 1, !.account = drafts[d].account]
        quiet == UNCHANGED <<now, drafts, next_draft, send_log, next_msgid, token_sends>>
    IN IF d \notin DOMAIN drafts
         THEN /\ tokens' = tk1
              /\ last' = [base EXCEPT !.error = "not_found",
                                      !.step = IF confirm THEN 2 ELSE 1,
                                      !.token = IF confirm THEN token ELSE 0]
              /\ quiet
              /\ UNCHANGED <<rate_limiters, next_token, issued_for, previews, validations>>
       ELSE IF ~confirm
         THEN LET draft == drafts[d]
                  chk == check_send_allowed(draft, draft.account,
                                            rate_limiters[draft.account], now)
              IN /\ rate_limiters' = [rate_limiters EXCEPT ![draft.account] = chk.timestamps]
                 /\ quiet
                 /\ UNCHANGED validations
                 /\ IF chk.ok
                      THEN /\ next_token' = next_token + 1
                           /\ tokens' = generate_confirmation_token(tk1, d, next_token + 1, now)
                           /\ issued_for' = Put(issued_for, next_token + 1, d)
                           /\ previews' = Put(previews, next_token + 1,
                                              format_draft_preview(draft))
                           /\ last' = [gated EXCEPT
                                  !.status = "pending_confirmation",
                                  !.token = next_token + 1,
                                  !.expires_in = CONFIRMATION_TOKEN_EXPIRY_SECONDS]
                      ELSE /\ tokens' = tk1
                           /\ UNCHANGED <<next_token, issued_for, previews>>
                           /\ last' = [gated EXCEPT
                                  !.status = IF chk.reason = "raise" THEN "raised" ELSE "error",
                                  !.error = chk.reason]
       ELSE IF token = 0
         THEN /\ tokens' = tk1
              /\ last' = [base EXCEPT !.error = "token_required", !.step = 2]
              /\ quiet
              /\ UNCHANGED <<rate_limiters, next_token, issued_for, previews, validations>>
       ELSE
         LET v == validate_confirmation_token(tk1, d, token, now)
         IN /\ tokens' = v.tokens
            /\ UNCHANGED <<next_draft, next_token, issued_for, previews>>
            /\ IF ~v.valid
                 THEN /\ last' = [base EXCEPT !.error = v.error, !.token = token,
                                                 !.step = 2, !.validation = "failed"]
                      /\ UNCHANGED <<now, drafts, send_log, next_msgid, token_sends,
                                     rate_limiters, validations>>
                 ELSE /\ validations' = Bump(validations, <<d, token>>)
                      /\ checked_send("clerk_send", d, TRUE, TRUE, T, token, TRUE)

\* the tool call: clerk_send touches no mail
ClerkSend(d, confirm, token, T) ==
    /\ clerk_send(d, confirm, token, T)
    /\ UNCHANGED <<mail, workers>>


\* --------------------------------------------------------- parallel workers
\* The same calls run by parallel workers.  A worker runs one call at a time
\* and its statements one after another; statements of different workers
\* interleave.  Each action below is one step of worker w.

\* worker w moves on to pc with its locals changed, or returns
goes(w, pc, locals) == workers' = [workers EXCEPT ![w] = [locals EXCEPT !.pc = pc]]
returns(w) == workers' = [workers EXCEPT ![w] = Idle]

\* the record of a call of w that returns (or raises) with this status
ended(w, status, error) ==
    [NoLast EXCEPT !.op = workers[w].op, !.draft_id = workers[w].draft_id,
                   !.token = workers[w].token, !.status = status, !.error = error,
                   !.step = IF workers[w].op = "clerk_send" THEN 2 ELSE 0]
running(w) == [ended(w, "running", "none") EXCEPT !.msg = w]

\* clerk_send(draft_id, confirm=true, token) up to the call of
\* _validate_confirmation_token: _cleanup_expired_tokens, get_draft, the
\* token test
EnterClerkSend(w, d, token) ==
    LET me == [Idle EXCEPT !.op = "clerk_send", !.draft_id = d, !.token = token]
        base == [NoLast EXCEPT !.op = "clerk_send", !.draft_id = d, !.token = token,
                               !.step = 2, !.status = "error"]
    IN /\ workers[w].pc = "idle"
       /\ tokens' = cleanup_expired_tokens(tokens, now)
       /\ IF d \notin DOMAIN drafts
            THEN last' = [base EXCEPT !.error = "not_found"] /\ UNCHANGED workers
          ELSE IF token = 0
            THEN last' = [base EXCEPT !.error = "token_required"] /\ UNCHANGED workers
          ELSE last' = [base EXCEPT !.status = "running", !.msg = w] /\ goes(w, "lookup", me)
       /\ UNCHANGED <<now, drafts, next_draft, next_token, rate_limiters, send_log,
                      next_msgid, hist, mail>>

\* _validate_confirmation_token: `if draft_id not in _confirmation_tokens`
ValidateLookup(w) ==
    /\ workers[w].pc = "lookup"
    /\ IF workers[w].draft_id \notin DOMAIN tokens
         THEN last' = [ended(w, "error", "no_token") EXCEPT !.validation = "failed"]
              /\ returns(w)
         ELSE last' = running(w) /\ goes(w, "read", workers[w])
    /\ UNCHANGED <<now, drafts, next_draft, tokens, next_token, rate_limiters, send_log,
                   next_msgid, hist, mail>>

\* `stored_token, expiry = _confirmation_tokens[draft_id]`: KeyError if the
\* entry has gone since the lookup
ValidateRead(w) ==
    /\ workers[w].pc = "read"
    /\ IF workers[w].draft_id \notin DOMAIN tokens
         THEN last' = [ended(w, "raised", "KeyError") EXCEPT !.validation = "failed"]
              /\ returns(w)
         ELSE last' = running(w)
              /\ goes(w, "compare",
                      [workers[w] EXCEPT
                          !.stored_token = tokens[workers[w].draft_id].token,
                          !.expiry = tokens[workers[w].draft_id].expiry])
    /\ UNCHANGED <<now, drafts, next_draft, tokens, next_token, rate_limiters, send_log,
                   next_msgid, hist, mail>>

\* `del _confirmation_tokens[draft_id]`: KeyError if the entry has gone
del_token(tk, d) ==
    IF d \in DOMAIN tk THEN [raised |-> FALSE, tokens |-> Remove(tk, d)]
                       ELSE [raised |-> TRUE, tokens |-> tk]

\* the expiry test (with its del) and secrets.compare_digest on the values
\* read
ValidateCompare(w) ==
    LET d == workers[w].draft_id
        del == del_token(tokens, d)
    IN /\ workers[w].pc = "compare"
       /\ IF now > workers[w].expiry
            THEN /\ tokens' = del.tokens
                 /\ last' = [ended(w, IF del.raised THEN "raised" ELSE "error",
                                      IF del.raised THEN "KeyError" ELSE "expired")
                               EXCEPT !.validation = "failed"]
                 /\ returns(w)
          ELSE IF workers[w].token # workers[w].stored_token
            THEN /\ last' = [ended(w, "error", "invalid_token") EXCEPT !.validation = "failed"]
                 /\ returns(w)
                 /\ UNCHANGED tokens
          ELSE /\ last' = running(w)
               /\ goes(w, "delete", workers[w])
               /\ UNCHANGED tokens
       /\ UNCHANGED <<now, drafts, next_draft, next_token, rate_limiters, send_log,
                      next_msgid, hist, mail>>

\* `del _confirmation_tokens[draft_id]` of the valid token, and the return
\* of (True, None)
ValidateDelete(w) ==
    LET d == workers[w].draft_id
        del == del_token(tokens, d)
    IN /\ workers[w].pc = "delete"
       /\ tokens' = del.tokens
       /\ IF del.raised
            THEN /\ last' = [ended(w, "raised", "KeyError") EXCEPT !.validation = "failed"]
                 /\ returns(w)
                 /\ UNCHANGED validations
            ELSE /\ last' = [running(w) EXCEPT !.validation = "passed"]
                 /\ goes(w, "send", workers[w])
                 /\ validations' = Bump(validations, <<d, workers[w].token>>)
       /\ UNCHANGED <<now, drafts, next_draft, next_token, rate_limiters, send_log,
                      next_msgid, issued_for, previews, token_sends, mail>>

\* a worker calls smtp_client.send_draft(draft_id)
EnterSendDraft(w, d) ==
    /\ workers[w].pc = "idle"
    /\ goes(w, "send", [Idle EXCEPT !.op = "send_draft", !.draft_id = d])
    /\ last' = [NoLast EXCEPT !.op = "send_draft", !.draft_id = d, !.status = "running",
                              !.msg = w]
    /\ UNCHANGED <<now, drafts, next_draft, tokens, next_token, rate_limiters, send_log,
                   next_msgid, hist, mail>>

\* send_draft up to SmtpClient.send: manager.get, get_account and
\* check_send_allowed (can_send evicts the old timestamps)
SendCheck(w) ==
    LET d == workers[w].draft_id
    IN /\ workers[w].pc = "send"
       /\ IF d \notin DOMAIN drafts
            THEN /\ last' = ended(w, "failed", "not_found")
                 /\ returns(w)
                 /\ UNCHANGED rate_limiters
            ELSE LET draft == drafts[d]
                     name == get_account(draft.account)
                 IN IF name = ValueError
                      THEN /\ last' = ended(w, "failed", "unknown_account")
                           /\ returns(w)
                           /\ UNCHANGED rate_limiters
                      ELSE LET chk == check_send_allowed(draft, name, rate_limiters[name], now)
                           IN /\ rate_limiters' = [rate_limiters EXCEPT ![name] = chk.timestamps]
                              /\ IF ~chk.ok
                                   THEN /\ last' = [ended(w, "failed", chk.reason)
                                                      EXCEPT !.account = name]
                                        /\ returns(w)
                                   ELSE /\ last' = [running(w) EXCEPT !.account = name]
                                        /\ goes(w, "dispatch",
                                                [workers[w] EXCEPT !.draft = Some(draft),
                                                                   !.name = name])
       /\ UNCHANGED <<now, drafts, next_draft, tokens, next_token, send_log, next_msgid,
                      hist, mail>>

\* SmtpClient.send(draft): the Message-ID is made and the SMTP conversation
\* ends with some outcome
SmtpDispatch(w, outcome) ==
    /\ workers[w].pc = "dispatch"
    /\ next_msgid' = next_msgid + 1
    /\ token_sends' = IF workers[w].token # 0 THEN Bump(token_sends, workers[w].token)
                                              ELSE token_sends
    /\ IF outcome = "ok"
         THEN /\ last' = [running(w) EXCEPT !.dispatched = TRUE, !.account = workers[w].name]
              /\ goes(w, "record", [workers[w] EXCEPT !.message_id = next_msgid + 1])
         ELSE /\ last' = [ended(w, "failed", outcome) EXCEPT !.dispatched = TRUE,
                                                            !.account = workers[w].name]
              /\ returns(w)
    /\ UNCHANGED <<now, drafts, next_draft, tokens, next_token, rate_limiters, send_log,
                   issued_for, previews, validations, mail>>

\* the tail of send_draft after a successful send: record_send, log_send,
\* manager.delete
RecordSend(w) ==
    LET me == workers[w]
        r == apply_result(TRUE, me.draft[1], me.name, rate_limiters, send_log, drafts,
                          me.message_id, now)
    IN /\ me.pc = "record"
       /\ rate_limiters' = r.rate_limiters
       /\ send_log' = r.send_log
       /\ drafts' = r.drafts
       /\ last' = [ended(w, "sent", "none") EXCEPT !.account = me.name,
                                                   !.message_id = me.message_id]
       /\ returns(w)
       /\ UNCHANGED <<now, next_draft, tokens, next_token, next_msgid, hist, mail>>

\* --------------------------------------------------------------- the store
\* MessageFlag values
SEEN == "seen"
FLAGGED == "flagged"
DELETED == "deleted"

MessageIds == {"m1", "m2"}

\* the names ImapClient.archive_message tries, in order
ArchiveNames == <<"Archive", "[Gmail]/All Mail", "All Mail", "Archives">>

\* config.cache.window_days, and a day in seconds
window_days == 7
DaySeconds == 86400

\* A datetime: the wall clock it shows in seconds, and for an aware one its
\* UTC offset in seconds.
Utc(s) == [wall |-> s, off |-> 0, aware |-> TRUE]
Naive(s) == [wall |-> s, off |-> 0, aware |-> FALSE]
\* the instant a datetime denotes, a naive one read as UTC
Instant(d) == d.wall - d.off

\* datetime.isoformat(): "YYYY-MM-DDTHH:MM:SS" of the wall clock, followed
\* for an aware datetime by "+HH:MM" or "-HH:MM"
isoformat(d) ==
    [clock |-> d.wall,
     sign |-> IF ~d.aware THEN "" ELSE IF d.off < 0 THEN "-" ELSE "+",
     off |-> IF d.off < 0 THEN 0 - d.off ELSE d.off]

\* datetime.fromisoformat()
fromisoformat(x) ==
    [wall |-> x.clock, off |-> IF x.sign = "-" THEN 0 - x.off ELSE x.off,
     aware |-> x.sign # ""]

\* the place of the offset text among the texts after one wall clock: a text
\* that ends sorts first, "+" sorts before "-", and then the digits decide
SuffixRank(x) ==
    IF x.sign = "" THEN 0 ELSE IF x.sign = "+" THEN 1 + x.off ELSE 2 + DaySeconds + x.off

\* SQLite's x < y on two TEXT values holding isoformat() texts
TextLess(x, y) ==
    \/ x.clock < y.clock
    \/ x.clock = y.clock /\ SuffixRank(x) < SuffixRank(y)

\* the messages a thread on the server can hold
ThreadIds == {"m1", "m2", "m3"}

\* hashlib.sha256(root).hexdigest()[:12], shortened to three digits: the
\* digests of the message ids, no two of them equal
sha12(root) ==
    IF root = "m1" THEN <<"a", "b", "1">>
    ELSE IF root = "m2" THEN <<"a", "b", "2">>
    ELSE IF root = "m3" THEN <<"e", "0", "3">>
    ELSE <<"b", "0", "0">>

\* compute_conv_id: the digest of the first reference, else of in_reply_to,
\* else of the message id
compute_conv_id(message_id, references, in_reply_to) ==
    IF references # <<>> THEN sha12(references[1])
    ELSE IF in_reply_to # None THEN sha12(in_reply_to)
    ELSE sha12(message_id)

\* as store_message, but INSERT OR IGNORE: the first row of an id stays
store_message_keeps_first(ms, m, row) == IF m \in DOMAIN ms THEN ms ELSE Put(ms, m, row)

\* Cache.store_message: INSERT OR REPLACE INTO messages
store_message(ms, m, row) == Put(ms, m, row)

\* Python's `x or ""` on a string column
or_empty(x) == IF x = None THEN "" ELSE x

\* the VALUES tuple of Cache.store_message for a Message, at time t; the
\* JSON columns shown as the lists they encode
message_row(msg, t) ==
    [conv_id |-> msg.conv_id, account |-> msg.account, folder |-> msg.folder,
     from_addr |-> msg.from_.addr, from_name |-> msg.from_.name,
     to_json |-> msg.to, cc_json |-> msg.cc, reply_to_json |-> msg.reply_to,
     subject |-> msg.subject, date_utc |-> isoformat(msg.date),
     body_text |-> msg.body_text, body_html |-> msg.body_html,
     flags |-> msg.flags, attachments_json |-> msg.attachments,
     in_reply_to |-> msg.in_reply_to, references_json |-> msg.references,
     headers_fetched_at |-> IF msg.headers_fetched_at = Nothing
                              THEN isoformat(Utc(t))
                              ELSE isoformat(msg.headers_fetched_at[1]),
     body_fetched_at |-> IF msg.body_fetched_at = Nothing
                           THEN Nothing
                           ELSE Some(isoformat(msg.body_fetched_at[1]))]

\* Cache._row_to_message
row_to_message(m, row) ==
    [message_id |-> m, conv_id |-> row.conv_id, account |-> row.account,
     folder |-> row.folder,
     from_ |-> [addr |-> row.from_addr, name |-> or_empty(row.from_name)],
     to |-> row.to_json, cc |-> row.cc_json, reply_to |-> row.reply_to_json,
     subject |-> or_empty(row.subject), date |-> fromisoformat(row.date_utc),
     body_text |-> row.body_text, body_html |-> row.body_html,
     flags |-> row.flags, attachments |-> row.attachments_json,
     in_reply_to |-> row.in_reply_to, references |-> row.references_json,
     headers_fetched_at |-> Some(fromisoformat(row.headers_fetched_at)),
     body_fetched_at |-> IF row.body_fetched_at = Nothing
                           THEN Nothing
                           ELSE Some(fromisoformat(row.body_fetched_at[1]))]

\* Cache.get_message: the Message of the row, None without a row
cache_get_message(ms, m) ==
    IF m \in DOMAIN ms THEN Some(row_to_message(m, ms[m])) ELSE Nothing

\* Cache.update_flags: UPDATE messages SET flags WHERE message_id
update_flags(ms, m, flags) ==
    IF m \in DOMAIN ms THEN [ms EXCEPT ![m].flags = flags] ELSE ms

\* Cache.update_body at time t: UPDATE messages SET body_text, body_html,
\* body_fetched_at = now WHERE message_id
update_body(ms, m, body_text, body_html, t) ==
    IF m \in DOMAIN ms
      THEN [ms EXCEPT ![m].body_text = body_text, ![m].body_html = body_html,
                      ![m].body_fetched_at = Some(t)]
      ELSE ms

\* Cache.move_message: UPDATE messages SET folder WHERE message_id
cache_move_message(ms, m, folder) ==
    IF m \in DOMAIN ms THEN [ms EXCEPT ![m].folder = folder] ELSE ms

\* Cache.delete_message
delete_message(ms, m) == Remove(ms, m)

\* cutoff = datetime.now(timezone.utc) - timedelta(days=window_days), as the
\* text the DELETE compares with
prune_cutoff(w, t) == isoformat(Utc(t - w * DaySeconds))

\* Cache.prune_old_messages(window_days) at time t:
\* DELETE FROM messages WHERE date_utc < cutoff.isoformat()
prune_old_messages(ms, w, t) ==
    [m \in {x \in DOMAIN ms : ~TextLess(ms[x].date_utc, prune_cutoff(w, t))} |-> ms[m]]

\* the rowcount prune_old_messages returns
prune_count(ms, w, t) ==
    Cardinality(DOMAIN ms \ DOMAIN prune_old_messages(ms, w, t))

\* the rows a caller stores: dates on both sides of the prune cutoff
MessageRows ==
    { [account |-> default_account, folder |-> f, conv_id |-> sha12("m1"), flags |-> fl,
       date_utc |-> isoformat(Utc(dt)), body_text |-> b, body_html |-> None,
       body_fetched_at |-> IF b = None THEN Nothing ELSE Some(0)] :
        f \in {INBOX, "Archive"}, fl \in {<<>>, <<SEEN>>},
        dt \in {0, 0 - window_days * DaySeconds - 1}, b \in {None, "text"} }

StoreCall(op, m, ms) ==
    /\ messages' = ms
    /\ last' = [NoLast EXCEPT !.op = op, !.msg = m, !.status = "ok"]
    /\ UNCHANGED <<pipeline, imap, cache_meta>>

\* Cache.store_message(msg) of a whole Message
StoreFullMessage(msg) ==
    /\ messages' = store_message(messages, msg.message_id, message_row(msg, now))
    /\ last' = [NoLast EXCEPT !.op = "store_message", !.msg = msg.message_id,
                              !.status = "ok", !.result = Some(msg)]
    /\ UNCHANGED <<pipeline, imap, cache_meta>>

\* Cache.get_message(message_id)
CacheGetMessage(m) ==
    /\ last' = [NoLast EXCEPT !.op = "cache_get_message", !.msg = m, !.status = "ok",
                              !.result = cache_get_message(messages, m)]
    /\ UNCHANGED <<pipeline, mail>>

StoreMessage(m, row) == StoreCall("store_message", m, store_message(messages, m, row))
UpdateFlags(m, flags) == StoreCall("update_flags", m, update_flags(messages, m, flags))
UpdateBody(m, body_text, body_html) ==
    StoreCall("update_body", m, update_body(messages, m, body_text, body_html, now))
CacheMoveMessage(m, folder) ==
    StoreCall("cache_move_message", m, cache_move_message(messages, m, folder))
DeleteMessage(m) == StoreCall("delete_message", m, delete_message(messages, m))
PruneOldMessages(w) ==
    /\ messages' = prune_old_messages(messages, w, now)
    /\ last' = [NoLast EXCEPT !.op = "prune_old_messages", !.status = "ok",
                              !.window_days = w,
                              !.count = prune_count(messages, w, now)]
    /\ UNCHANGED <<pipeline, imap, cache_meta>>

\* as clear, but without the DELETE FROM cache_meta
clear_keeps_meta(ms, meta, dr) ==
    [messages |-> <<>>, cache_meta |-> meta, drafts |-> <<>>]

\* Cache.clear: DELETE FROM messages, DELETE FROM cache_meta, DELETE FROM drafts
clear(ms, meta, dr) ==
    [messages |-> <<>>, cache_meta |-> <<>>, drafts |-> <<>>]

\* Cache.clear (ClerkAPI.clear_cache)
ClearCache ==
    /\ messages' = clear(messages, cache_meta, drafts).messages
    /\ cache_meta' = clear(messages, cache_meta, drafts).cache_meta
    /\ drafts' = clear(messages, cache_meta, drafts).drafts
    /\ last' = [NoLast EXCEPT !.op = "clear", !.status = "ok"]
    /\ UNCHANGED <<now, next_draft, tokens, next_token, rate_limiters, send_log,
                   next_msgid, hist, imap, workers>>

\* ------------------------------------------------------------- the server
\* what can go wrong on the connection during a facade call
NetOutcomes == {"ok", "connect_failed", "command_failed", "expunge_failed"}

\* what stops ImapClient.connect: IMAPClient(host) raising, or login raising
ConnectFailures == {"connect_failed", "auth_failed"}

\* ImapClient.connect (__enter__) with n connections open: _connect_imap
\* assigns self._client = IMAPClient(host), which opens the connection, and
\* then logs in
imap_connect(n, net) ==
    IF net = "connect_failed" THEN [sessions |-> n, raised |-> TRUE]
    ELSE IF net = "auth_failed" THEN [sessions |-> n + 1, raised |-> TRUE]
    ELSE [sessions |-> n + 1, raised |-> FALSE]

\* ImapClient.disconnect (__exit__): logout, self._client = None
imap_disconnect(n) == n - 1

\* `with get_imap_client(account) as client: ...` with n connections open:
\* __exit__ runs however the block ends, but only once __enter__ has returned
with_client(n, net) ==
    IF imap_connect(n, net).raised
      THEN imap_connect(n, net).sessions
      ELSE imap_disconnect(imap_connect(n, net).sessions)

\* ImapClient.add_flags / remove_flags: select_folder, search, then the
\* flag command; ok is FALSE where the code raises
imap_flags(srv, folders, folder, m, flag, add, net) ==
    IF folder \notin folders \/ <<folder, m>> \notin DOMAIN srv \/ net # "ok"
      THEN [ok |-> FALSE, server |-> srv]
      ELSE [ok |-> TRUE,
            server |-> [srv EXCEPT ![<<folder, m>>] =
                            IF add THEN @ \cup {flag} ELSE @ \ {flag}]]

\* IMAP EXPUNGE on the selected folder: every \Deleted message of it goes
expunge(srv, folder) ==
    [k \in {x \in DOMAIN srv : ~(x[1] = folder /\ DELETED \in srv[x])} |-> srv[k]]

\* ImapClient.move_message: select, search, copy, add \Deleted, expunge
imap_move_message(srv, folders, m, from_folder, to_folder, net) ==
    IF from_folder \notin folders \/ <<from_folder, m>> \notin DOMAIN srv
      THEN [ok |-> FALSE, server |-> srv]
    ELSE IF to_folder \notin folders \/ net = "command_failed"
      THEN [ok |-> FALSE, server |-> srv]
    ELSE IF to_folder = from_folder
      THEN [ok |-> net = "ok", server |-> srv]
    ELSE
      LET copied == Put(srv, <<to_folder, m>>, srv[<<from_folder, m>>])
          marked == [copied EXCEPT ![<<from_folder, m>>] = @ \cup {DELETED}]
      IN IF net = "expunge_failed"
           THEN [ok |-> FALSE, server |-> marked]
           ELSE [ok |-> TRUE, server |-> expunge(marked, from_folder)]

\* ImapClient.archive_message: the first of ArchiveNames the server lists
archive_folder(folders) ==
    IF \E i \in 1..Len(ArchiveNames) : ArchiveNames[i] \in folders
      THEN ArchiveNames[CHOOSE i \in 1..Len(ArchiveNames) :
                            /\ ArchiveNames[i] \in folders
                            /\ \A j \in 1..(i - 1) : ArchiveNames[j] \notin folders]
      ELSE None

imap_archive_message(srv, folders, m, net) ==
    IF archive_folder(folders) = None
      THEN [ok |-> FALSE, server |-> srv]
      ELSE imap_move_message(srv, folders, m, INBOX, archive_folder(folders), net)

\* the server changes from outside: a message is delivered, a folder is made
ServerDeliver(m) ==
    /\ \A k \in DOMAIN server : k[2] # m
    /\ server' = Put(server, <<INBOX, m>>, {})
    /\ last' = [NoLast EXCEPT !.op = "deliver", !.msg = m]
    /\ UNCHANGED <<pipeline, messages, cache_meta, server_folders, sessions>>

\* another client of the mailbox sets the flags of a message in INBOX
ServerStoreFlags(m, flags) ==
    /\ <<INBOX, m>> \in DOMAIN server
    /\ server[<<INBOX, m>>] # flags
    /\ server' = [server EXCEPT ![<<INBOX, m>>] = flags]
    /\ last' = [NoLast EXCEPT !.op = "server_store_flags", !.msg = m]
    /\ UNCHANGED <<pipeline, messages, cache_meta, server_folders, sessions>>

\* the interpreter reclaims a client no operation holds any more: its
\* connection closes
Reclaim ==
    /\ sessions > 0
    /\ sessions' = sessions - 1
    /\ last' = [NoLast EXCEPT !.op = "reclaim"]
    /\ UNCHANGED <<pipeline, messages, cache_meta, server, server_folders>>

ServerCreateFolder(f) ==
    /\ f \notin server_folders
    /\ server_folders' = server_folders \cup {f}
    /\ last' = [NoLast EXCEPT !.op = "create_folder", !.to_folder = f]
    /\ UNCHANGED <<pipeline, messages, cache_meta, server, sessions>>


\* ------------------------------- ImapClient.move_message, command by command
\* the commands move_message sends once the search has found the message
delete_first_commands == <<"add_flags", "expunge", "copy">>

move_commands == <<"copy", "add_flags", "expunge">>

\* one command of move_message on the selected folder from_folder; ok is
\* FALSE where the server answers NO and IMAPClient raises.  A copy into the
\* selected folder itself is a second copy there, which the flag and the
\* expunge of the original leave behind.
run_command(srv, folders, c, m, from_folder, to_folder) ==
    IF <<from_folder, m>> \notin DOMAIN srv THEN [ok |-> FALSE, server |-> srv]
    ELSE IF c = "copy"
      THEN IF to_folder \notin folders THEN [ok |-> FALSE, server |-> srv]
           ELSE [ok |-> TRUE, server |-> Put(srv, <<to_folder, m>>, srv[<<from_folder, m>>])]
    ELSE IF to_folder = from_folder THEN [ok |-> TRUE, server |-> srv]
    ELSE IF c = "add_flags"
      THEN [ok |-> TRUE, server |-> [srv EXCEPT ![<<from_folder, m>>] = @ \cup {DELETED}]]
    ELSE [ok |-> TRUE, server |-> expunge(srv, from_folder)]

\* the commands from the i-th on, each sent only after the one before it
\* succeeded; the connection carries `limit` commands and then fails
RECURSIVE run_commands(_, _, _, _, _, _, _, _)
run_commands(srv, folders, cmds, i, limit, m, from_folder, to_folder) ==
    IF i > Len(cmds) THEN [ok |-> TRUE, server |-> srv, done |-> <<>>]
    ELSE IF i > limit THEN [ok |-> FALSE, server |-> srv, done |-> <<>>]
    ELSE LET r == run_command(srv, folders, cmds[i], m, from_folder, to_folder)
         IN IF ~r.ok THEN [ok |-> FALSE, server |-> srv, done |-> <<>>]
            ELSE LET rest == run_commands(r.server, folders, cmds, i + 1, limit, m,
                                          from_folder, to_folder)
                 IN [rest EXCEPT !.done = <<cmds[i]>> \o @]

\* ImapClient.move_message(message_id, from_folder, to_folder) on an open
\* connection: select_folder, search (ValueError if nothing is found), then
\* the commands
ImapMoveMessage(m, from_folder, to_folder, limit) ==
    LET base == [NoLast EXCEPT !.op = "imap_move_message", !.msg = m,
                               !.from_folder = from_folder, !.to_folder = to_folder]
    IN IF from_folder \notin server_folders \/ <<from_folder, m>> \notin DOMAIN server
         THEN /\ last' = [base EXCEPT !.status = "raised", !.error = ValueError]
              /\ UNCHANGED <<pipeline, mail>>
         ELSE LET r == run_commands(server, server_folders, move_commands, 1, limit, m,
                                    from_folder, to_folder)
              IN /\ server' = r.server
                 /\ last' = [base EXCEPT !.status = IF r.ok THEN "ok" ELSE "raised",
                                         !.error = IF r.ok THEN "none" ELSE "server_failed",
                                         !.effects = r.done]
                 /\ UNCHANGED <<pipeline, messages, cache_meta, server_folders, sessions>>

\* ------------------------------------------------------------- the facade
\* list.append if absent, and the filter of mark_unread / unflag_message
\* as AddFlag, but the new flag replaces the list
add_flag_overwrites(flags, f) == <<f>>

AddFlag(flags, f) == IF f \in SeqToSet(flags) THEN flags ELSE Append(flags, f)
DropFlag(flags, f) == SelectSeq(flags, LAMBDA x : x # f)

\* as the statements after the with block, but run though the block raised
after_server_regardless(raised, ms, mirrored) == mirrored

\* the statements after `with get_imap_client(...)`: an exception raised in
\* the block leaves the method before they run
after_server(raised, ms, mirrored) == IF raised THEN ms ELSE mirrored

\* One facade call.  r is what the server-side command did, mirrored the
\* store the mirror statements produce, writes whether they write at all.
FacadeCall(op, m, account, from_folder, to_folder, net, r, mirrored, writes) ==
    LET base == [NoLast EXCEPT !.op = op, !.msg = m, !.account = get_account(account),
                               !.from_folder = from_folder, !.to_folder = to_folder]
    IN IF get_account(account) = ValueError
         THEN /\ last' = [base EXCEPT !.status = "raised", !.error = "unknown_account"]
              /\ UNCHANGED <<pipeline, mail>>
       ELSE IF net \in ConnectFailures
         THEN /\ last' = [base EXCEPT !.status = "raised", !.error = net,
                                      !.effects = <<net>>]
              /\ messages' = after_server(TRUE, messages, mirrored)
              /\ sessions' = with_client(sessions, net)
              /\ UNCHANGED <<pipeline, server, server_folders, cache_meta>>
       ELSE /\ server' = r.server
            /\ sessions' = with_client(sessions, net)
            /\ messages' = after_server(~r.ok, messages, mirrored)
            /\ last' = [base EXCEPT
                   !.status = IF r.ok THEN "ok" ELSE "raised",
                   !.error = IF r.ok THEN "none" ELSE "server_failed",
                   !.effects = <<"connect">>
                               \o (IF r.ok THEN <<"server">> ELSE <<"server_failed">>)
                               \o (IF r.ok /\ writes THEN <<"store">> ELSE <<>>)]
            /\ UNCHANGED <<pipeline, server_folders, cache_meta>>

\* the folder mark_read .. unflag_message select: the cached one, or INBOX
FolderOf(m) == IF m \in DOMAIN messages THEN messages[m].folder ELSE INBOX

\* ClerkAPI.mark_read / flag_message (add) and mark_unread / unflag_message
FlagCall(op, m, account, flag, add, net) ==
    FacadeCall(op, m, account, FolderOf(m), None, net,
               imap_flags(server, server_folders, FolderOf(m), m, flag, add, net),
               IF m \in DOMAIN messages
                 THEN update_flags(messages, m,
                                   IF add THEN AddFlag(messages[m].flags, flag)
                                          ELSE DropFlag(messages[m].flags, flag))
                 ELSE messages,
               m \in DOMAIN messages)

MarkRead(m, account, net) == FlagCall("mark_read", m, account, SEEN, TRUE, net)
MarkUnread(m, account, net) == FlagCall("mark_unread", m, account, SEEN, FALSE, net)
FlagMessage(m, account, net) == FlagCall("flag_message", m, account, FLAGGED, TRUE, net)
UnflagMessage(m, account, net) == FlagCall("unflag_message", m, account, FLAGGED, FALSE, net)

\* ClerkAPI.move_message(message_id, to_folder, from_folder, account)
MoveMessage(m, to_folder, from_folder, account, net) ==
    FacadeCall("move_message", m, account, from_folder, to_folder, net,
               imap_move_message(server, server_folders, m, from_folder, to_folder, net),
               cache_move_message(messages, m, to_folder), TRUE)

\* ClerkAPI.archive_message(message_id, account)
ArchiveMessage(m, account, net) ==
    FacadeCall("archive_message", m, account, INBOX, "Archive", net,
               imap_archive_message(server, server_folders, m, net),
               cache_move_message(messages, m, "Archive"), TRUE)

\* ------------------------------------------------------------ raw queries
\* str.upper() on the letters SQL is written in
UpperChar(c) ==
    CASE c = "a" -> "A" [] c = "b" -> "B" [] c = "c" -> "C" [] c = "d" -> "D"
      [] c = "e" -> "E" [] c = "f" -> "F" [] c = "g" -> "G" [] c = "h" -> "H"
      [] c = "i" -> "I" [] c = "k" -> "K" [] c = "l" -> "L" [] c = "m" -> "M"
      [] c = "n" -> "N" [] c = "o" -> "O" [] c = "p" -> "P" [] c = "r" -> "R"
      [] c = "s" -> "S" [] c = "t" -> "T" [] c = "u" -> "U" [] c = "v" -> "V"
      [] c = "w" -> "W" [] c = "x" -> "X" [] c = "y" -> "Y"
      [] OTHER -> c

RECURSIVE upper(_)
upper(s) ==
    IF Len(s) = 0 THEN "" ELSE UpperChar(SubSeq(s, 1, 1)) \o upper(SubSeq(s, 2, Len(s)))

\* str.strip() and str.rstrip(chars)
RECURSIVE lstrip(_)
lstrip(s) ==
    IF Len(s) > 0 /\ SubSeq(s, 1, 1) = " " THEN lstrip(SubSeq(s, 2, Len(s))) ELSE s
RECURSIVE rstrip(_, _)
rstrip(s, c) ==
    IF Len(s) > 0 /\ SubSeq(s, Len(s), Len(s)) = c
      THEN rstrip(SubSeq(s, 1, Len(s) - 1), c) ELSE s
strip(s) == rstrip(lstrip(s), " ")

\* str.startswith, str.endswith and `p in s`
startswith(s, p) == Len(p) <= Len(s) /\ SubSeq(s, 1, Len(p)) = p
endswith(s, p) == Len(p) <= Len(s) /\ SubSeq(s, Len(s) - Len(p) + 1, Len(s)) = p
contains(s, p) == \E i \in 1..(Len(s) - Len(p) + 1) : SubSeq(s, i, i + Len(p) - 1) = p

\* the keywords execute_raw_query refuses
dangerous == <<"INSERT", "UPDATE", "DELETE", "DROP", "ALTER", "CREATE", "TRUNCATE">>

\* str(limit) and its inverse, for the limits in use
LimitText(n) == CASE n = 1 -> "1" [] n = 2 -> "2" [] OTHER -> "3"
LimitOf(t) == CASE t = "1" -> 1 [] t = "2" -> 2 [] OTHER -> 3

\* the statements SQLite finds in a text: the non-blank pieces between the
\* semicolons
RECURSIVE statements(_)
statements(text) ==
    IF strip(text) = "" THEN <<>>
    ELSE IF ~contains(text, ";") THEN <<strip(text)>>
    ELSE LET i == CHOOSE k \in 1..Len(text) :
                     /\ SubSeq(text, k, k) = ";"
                     /\ \A j \in 1..(k - 1) : SubSeq(text, j, j) # ";"
             first == strip(SubSeq(text, 1, i - 1))
         IN (IF first = "" THEN <<>> ELSE <<first>>)
              \o statements(SubSeq(text, i + 1, Len(text)))

\* the rows a SELECT * FROM messages statement returns: those of its WHERE
\* clause, the first n under a closing LIMIT n, in any order
select_rows(ms, stmt) ==
    LET up == upper(stmt)
        from == {m \in DOMAIN ms :
                    contains(up, " WHERE FOLDER != 'LIMIT'") => ms[m].folder # "limit"}
        n == IF \E d \in {"1", "2", "3"} : endswith(up, " LIMIT " \o d)
               THEN LimitOf(SubSeq(up, Len(up), Len(up))) ELSE Cardinality(from)
    IN {rows \in SUBSET from :
          Cardinality(rows) = IF n < Cardinality(from) THEN n ELSE Cardinality(from)}

\* sqlite3's Connection.execute(text) on the store: one statement at a time
\* (ProgrammingError otherwise, nothing run); a SELECT reads, the other
\* statements write or fail
sqlite_execute(ms, meta, text) ==
    LET stmts == statements(text)
        up == IF stmts = <<>> THEN "" ELSE upper(stmts[1])
        same == [raised |-> TRUE, messages |-> ms, cache_meta |-> meta, rows |-> {{}}]
    IN IF Len(stmts) # 1 THEN same
       ELSE IF startswith(up, "SELECT * FROM MESSAGES")
         THEN [raised |-> FALSE, messages |-> ms, cache_meta |-> meta,
               rows |-> select_rows(ms, stmts[1])]
       ELSE IF up = "DELETE FROM MESSAGES"
         THEN [raised |-> FALSE, messages |-> <<>>, cache_meta |-> meta, rows |-> {{}}]
       ELSE IF up = "REPLACE INTO CACHE_META VALUES ('LIMIT', '0')"
         THEN [raised |-> FALSE, messages |-> ms,
               cache_meta |-> Put(meta, <<"raw", "limit">>, 0), rows |-> {{}}]
       ELSE same

\* as raw_query_refused, but without the SELECT test
refused_by_keyword(sql) ==
    LET sql_upper == upper(strip(sql))
    IN \E i \in 1..Len(dangerous) : contains(sql_upper, dangerous[i])

\* the safety checks of execute_raw_query: ValueError unless the text
\* starts with SELECT and holds none of the dangerous keywords
raw_query_refused(sql) ==
    LET sql_upper == upper(strip(sql))
    IN \/ ~startswith(sql_upper, "SELECT")
       \/ \E i \in 1..Len(dangerous) : contains(sql_upper, dangerous[i])

\* the text execute_raw_query runs: LIMIT added if not present
limited(sql, limit) ==
    IF ~contains(upper(strip(sql)), "LIMIT")
      THEN rstrip(sql, ";") \o " LIMIT " \o LimitText(limit)
      ELSE sql

\* Cache.execute_raw_query(sql, None, limit) (ClerkAPI.search_sql)
ExecuteRawQuery(sql, limit) ==
    LET base == [NoLast EXCEPT !.op = "execute_raw_query", !.prefix = sql,
                               !.expires_in = limit]
    IN IF raw_query_refused(sql)
         THEN /\ last' = [base EXCEPT !.status = "raised", !.error = ValueError]
              /\ UNCHANGED <<pipeline, mail>>
         ELSE LET r == sqlite_execute(messages, cache_meta, limited(sql, limit))
              IN /\ messages' = r.messages
                 /\ cache_meta' = r.cache_meta
                 /\ \E rows \in r.rows :
                       last' = [base EXCEPT
                                  !.status = IF r.raised THEN "raised" ELSE "ok",
                                  !.error = IF r.raised THEN "ProgrammingError" ELSE "none",
                                  !.fetched = rows,
                                  !.count = Cardinality(rows)]
                 /\ UNCHANGED <<pipeline, imap>>

\* ------------------------------------------------------------ threading
\* the message ids a thread table can hold: the messages and an ancestor
\* that is only ever referred to
NodeIds == ThreadIds \cup {"m0"}

\* the id_table before the first message: no node; `order` is the insertion
\* order of the dict, `real` the nodes that hold a message
NoTable ==
    [order |-> <<>>, real |-> {},
     parent |-> [n \in NodeIds |-> None], children |-> [n \in NodeIds |-> <<>>]]

\* id_table[ref_id] = ThreadNode(message_id=ref_id) unless it is there
ensure_node(T, n) ==
    IF n \in SeqToSet(T.order) THEN T ELSE [T EXCEPT !.order = Append(@, n)]

\* child.parent = par and par.children.append(child) where the child has no
\* parent yet
link_child(T, child, par) ==
    IF T.parent[child] # None THEN T
    ELSE [T EXCEPT !.parent[child] = par,
                   !.children[par] = IF child \in SeqToSet(@) THEN @ ELSE Append(@, child)]

\* the loop over refs from the i-th on, parent_node the node before it
RECURSIVE walk_refs(_, _, _, _)
walk_refs(T, refs, i, parent_node) ==
    IF i > Len(refs) THEN [table |-> T, parent_node |-> parent_node]
    ELSE LET T1 == ensure_node(T, refs[i])
             T2 == IF parent_node # None THEN link_child(T1, refs[i], parent_node) ELSE T1
         IN walk_refs(T2, refs, i + 1, refs[i])

\* one turn of the loop over the messages
insert_message(T, msg) ==
    LET T1 == [ensure_node(T, msg.message_id) EXCEPT !.real = @ \cup {msg.message_id}]
        refs == IF msg.in_reply_to # None /\ msg.in_reply_to \notin SeqToSet(msg.references)
                  THEN Append(msg.references, msg.in_reply_to)
                  ELSE msg.references
        w == walk_refs(T1, refs, 1, None)
    IN IF w.parent_node # None /\ w.parent_node # msg.message_id
         THEN link_child(w.table, msg.message_id, w.parent_node)
         ELSE w.table

RECURSIVE build_table(_, _, _)
build_table(T, msgs, i) ==
    IF i > Len(msgs) THEN T ELSE build_table(insert_message(T, msgs[i]), msgs, i + 1)

\* steps 2 and 3: the nodes without a parent, a dummy one with a single
\* child replaced by that child
promoted_roots(T) ==
    LET roots == SelectSeq(T.order, LAMBDA n : T.parent[n] = None)
    IN [i \in 1..Len(roots) |->
          IF roots[i] \notin T.real /\ Len(T.children[roots[i]]) = 1
            THEN T.children[roots[i]][1] ELSE roots[i]]

\* _collect_messages: the node's message, then those of its children
RECURSIVE collect_messages(_, _)
RECURSIVE collect_children(_, _, _)
collect_messages(T, n) ==
    (IF n \in T.real THEN <<n>> ELSE <<>>) \o collect_children(T, T.children[n], 1)
collect_children(T, ch, i) ==
    IF i > Len(ch) THEN <<>>
    ELSE collect_messages(T, ch[i]) \o collect_children(T, ch, i + 1)

\* list.sort(key): the stable sort of a list of [key, item] pairs by key, by
\* insertion
RECURSIVE sorted_by(_)
sorted_by(s) ==
    IF s = <<>> THEN <<>>
    ELSE LET rest == sorted_by(SubSeq(s, 1, Len(s) - 1))
             x == s[Len(s)]
             k == Cardinality({i \in 1..Len(rest) : rest[i].key <= x.key})
         IN SubSeq(rest, 1, k) \o <<x>> \o SubSeq(rest, k + 1, Len(rest))

\* the message of the list that the node n holds: the last one of that id
message_of(msgs, n) ==
    msgs[CHOOSE i \in 1..Len(msgs) :
            /\ msgs[i].message_id = n
            /\ \A j \in 1..Len(msgs) : msgs[j].message_id = n => j <= i]

\* the loop `if MessageFlag.SEEN not in msg.flags: unread_count += 1`
thread_unread(msgs, ids) ==
    Cardinality({i \in 1..Len(ids) : SEEN \notin SeqToSet(message_of(msgs, ids[i]).flags)})

\* step 4 for one root: the Conversation of its subtree, None when the
\* subtree holds no message
thread_conversation(T, msgs, root) ==
    LET found == collect_messages(T, root)
        byDate == sorted_by([i \in 1..Len(found) |->
                               [key |-> Instant(message_of(msgs, found[i]).date), item |-> found[i]]])
        ids == [i \in 1..Len(byDate) |-> byDate[i].item]
    IN [conv_id |-> sha12(root),
        messages |-> ids,
        message_count |-> Len(ids),
        unread_count |-> thread_unread(msgs, ids),
        latest_date |-> IF ids = <<>> THEN 0
                        ELSE Instant(message_of(msgs, ids[Len(ids)]).date)]

\* threading.thread_messages(messages): the conversations, latest first
thread_messages(msgs) ==
    LET T == build_table(NoTable, msgs, 1)
        roots == promoted_roots(T)
        convs == SelectSeq([i \in 1..Len(roots) |-> thread_conversation(T, msgs, roots[i])],
                           LAMBDA c : c.messages # <<>>)
        latest == sorted_by([i \in 1..Len(convs) |->
                               [key |-> 0 - convs[i].latest_date, item |-> convs[i]]])
    IN [i \in 1..Len(latest) |-> latest[i].item]

\* the threading fields of the Message _row_to_message builds of a row
stored_message(ms, m) ==
    [message_id |-> m, conv_id |-> ms[m].conv_id, flags |-> ms[m].flags,
     date |-> fromisoformat(ms[m].date_utc),
     in_reply_to |-> ms[m].in_reply_to, references |-> ms[m].references_json]

\* thread_messages, called on a list of messages
ThreadMessages(msgs) ==
    /\ last' = [NoLast EXCEPT !.op = "thread_messages", !.status = "ok",
                              !.result = Some([messages |-> msgs,
                                               conversations |-> thread_messages(msgs)]),
                              !.count = Len(thread_messages(msgs))]
    /\ UNCHANGED <<pipeline, mail>>

\* ------------------------------------------------------- the read facade
\* config.cache.inbox_freshness_min and body_freshness_min, and a minute
inbox_freshness_min == 5
body_freshness_min == 60
MinuteSeconds == 60

\* Cache.is_fresh(message_id, freshness_minutes, check_body=True) at time t
is_fresh(ms, m, freshness_minutes, t) ==
    IF m \notin DOMAIN ms THEN FALSE
    ELSE IF ms[m].body_fetched_at = Nothing THEN FALSE
    ELSE t - ms[m].body_fetched_at[1] < freshness_minutes * MinuteSeconds

\* the MIME parts with a payload a message on the server can have
BodyParts == SUBSET {"text/plain", "text/html"}

\* extract_body: the first text/plain and text/html payloads, None without
extract_body(parts) ==
    [body_text |-> IF "text/plain" \in parts THEN "text" ELSE None,
     body_html |-> IF "text/html" \in parts THEN "html" ELSE None]

\* ImapClient.fetch_message_body: select_folder, search by Message-ID,
\* fetch BODY.PEEK[]; (None, None) where the search finds nothing
fetch_message_body(srv, folders, folder, m, parts, net) ==
    IF folder \notin folders \/ net # "ok"
      THEN [ok |-> FALSE, body_text |-> None, body_html |-> None]
    ELSE IF <<folder, m>> \notin DOMAIN srv
      THEN [ok |-> TRUE, body_text |-> None, body_html |-> None]
    ELSE [ok |-> TRUE, body_text |-> extract_body(parts).body_text,
                       body_html |-> extract_body(parts).body_html]

\* extract_attachments: the metadata of the parts whose Content-Disposition
\* says attachment
extract_attachments(parts) ==
    IF "attachment" \in parts THEN <<"unnamed">> ELSE <<>>

\* ImapClient._parse_message at fetch_time t: the Message a fetch builds, with
\* the body when has_body, in the columns store_message gives it; the
\* envelope date loses its tzinfo, the wall clock kept
parse_message(account, folder, conv_id, flags, date, parts, has_body, t) ==
    [account |-> account, folder |-> folder, conv_id |-> conv_id, flags |-> flags,
     date_utc |-> isoformat(Naive(date.wall)),
     body_text |-> IF has_body THEN extract_body(parts).body_text ELSE None,
     body_html |-> IF has_body THEN extract_body(parts).body_html ELSE None,
     body_fetched_at |-> IF has_body THEN Some(t) ELSE Nothing,
     attachments_json |-> IF has_body THEN extract_attachments(parts) ELSE <<>>]

\* the condition under which get_message and get_conversation go to the
\* server for the body of a cached message
needs_body(ms, m, fresh, t) ==
    /\ ms[m].body_text = None
    /\ fresh \/ ~is_fresh(ms, m, body_freshness_min, t)

\* the body refill of one cached message m: its own connection, the fetch,
\* Cache.update_body
refill(ms, srv, folders, n, m, net, parts, t) ==
    IF get_account(ms[m].account) = ValueError
      THEN [raised |-> TRUE, messages |-> ms, sessions |-> n, effects |-> <<>>]
    ELSE IF net \in ConnectFailures
      THEN [raised |-> TRUE, messages |-> ms, sessions |-> with_client(n, net),
            effects |-> <<net>>]
    ELSE
      LET b == fetch_message_body(srv, folders, ms[m].folder, m, parts, net)
      IN IF ~b.ok
           THEN [raised |-> TRUE, messages |-> ms, sessions |-> with_client(n, net),
                 effects |-> <<"connect", "server_failed">>]
           ELSE [raised |-> FALSE,
                 messages |-> update_body(ms, m, b.body_text, b.body_html, t),
                 sessions |-> with_client(n, net),
                 effects |-> <<"connect", "server", "store">>]

\* ClerkAPI.get_message(message_id, fresh)
GetMessage(m, fresh, net, parts) ==
    LET base == [NoLast EXCEPT !.op = "get_message", !.msg = m, !.fresh = fresh]
    IN IF m \notin DOMAIN messages
         THEN /\ last' = [base EXCEPT !.status = "ok"]
              /\ UNCHANGED <<pipeline, mail>>
       ELSE IF ~needs_body(messages, m, fresh, now)
         THEN /\ last' = [base EXCEPT !.status = "ok", !.result = Some(messages[m])]
              /\ UNCHANGED <<pipeline, mail>>
       ELSE
         LET r == refill(messages, server, server_folders, sessions, m, net, parts, now)
         IN /\ messages' = r.messages
            /\ sessions' = r.sessions
            /\ last' = [base EXCEPT
                   !.status = IF r.raised THEN "raised" ELSE "ok",
                   !.error = IF r.raised THEN "server_failed" ELSE "none",
                   !.effects = r.effects,
                   !.result = IF r.raised THEN Nothing
                              ELSE Some([messages[m] EXCEPT
                                           !.body_text = r.messages[m].body_text,
                                           !.body_html = r.messages[m].body_html])]
            /\ UNCHANGED <<pipeline, server, server_folders, cache_meta>>

\* ---------------------------------------------------------------- inbox
\* the key of an account's inbox sync time in cache_meta
InboxSyncKey(account) == <<"inbox_sync", account>>

\* Cache.is_inbox_fresh(account, freshness_minutes) at time t
is_inbox_fresh(meta, account, freshness_minutes, t) ==
    IF InboxSyncKey(account) \notin DOMAIN meta THEN FALSE
    ELSE t - meta[InboxSyncKey(account)] < freshness_minutes * MinuteSeconds

\* Cache.mark_inbox_synced: INSERT OR REPLACE INTO cache_meta
mark_inbox_synced(meta, account, t) == Put(meta, InboxSyncKey(account), t)

\* Cache.is_inbox_fresh(account) asked with the default freshness_minutes
IsInboxFresh(account) ==
    /\ last' = [NoLast EXCEPT !.op = "is_inbox_fresh", !.account = account,
                              !.status = "ok",
                              !.from_cache = is_inbox_fresh(cache_meta, account,
                                                            inbox_freshness_min, now)]
    /\ UNCHANGED <<pipeline, mail>>

\* Cache.mark_inbox_synced(account)
MarkInboxSynced(account) ==
    /\ cache_meta' = mark_inbox_synced(cache_meta, account, now)
    /\ last' = [NoLast EXCEPT !.op = "mark_inbox_synced", !.account = account,
                              !.status = "ok"]
    /\ UNCHANGED <<pipeline, messages, imap>>

\* the limit list_inbox has by default
default_limit == 20

\* SQLite folds the ASCII letters when LIKE compares two characters
LikeFold(c) ==
    CASE c = "A" -> "a"
      [] c = "B" -> "b"
      [] c = "E" -> "e"
      [] OTHER -> c

\* SQLite's `txt LIKE pat`: % stands for any run of characters, _ for any
\* one character, every other character for itself in either case
RECURSIVE Like(_, _)
Like(pat, txt) ==
    IF pat = <<>> THEN txt = <<>>
    ELSE IF pat[1] = "%"
      THEN Like(Tail(pat), txt) \/ (txt # <<>> /\ Like(pat, Tail(txt)))
    ELSE IF pat[1] = "_"
      THEN txt # <<>> /\ Like(Tail(pat), Tail(txt))
    ELSE /\ txt # <<>>
         /\ LikeFold(pat[1]) = LikeFold(txt[1])
         /\ Like(Tail(pat), Tail(txt))

\* the characters of a MessageFlag's value
FlagChars(f) ==
    CASE f = SEEN -> <<"s", "e", "e", "n">>
      [] f = FLAGGED -> <<"f", "l", "a", "g", "g", "e", "d">>
      [] OTHER -> <<"d", "e", "l", "e", "t", "e", "d">>

\* json.dumps([f.value for f in flags]), the text of the flags column
RECURSIVE json_items(_)
json_items(flags) ==
    IF flags = <<>> THEN <<>>
    ELSE <<"\"">> \o FlagChars(Head(flags)) \o <<"\"">>
         \o (IF Len(flags) > 1 THEN <<",", " ">> ELSE <<>>)
         \o json_items(Tail(flags))
json_dumps(flags) == <<"[">> \o json_items(flags) \o <<"]">>

\* as counted_unread, but COUNT(*): every row counted
counted_always(flags) == TRUE

\* CASE WHEN flags NOT LIKE '%"seen"%' THEN 1 ELSE 0 END
counted_unread(flags) ==
    ~Like(<<"%", "\"", "s", "e", "e", "n", "\"", "%">>, json_dumps(flags))

\* the rows list_conversations groups: WHERE folder = ? AND account = ?
listed_rows(ms, account, folder) ==
    {m \in DOMAIN ms : ms[m].folder = folder /\ ms[m].account = account}

\* one row of the GROUP BY conv_id: MAX(date_utc), COUNT(*), and the SUM
\* over the rows whose flags do not hold seen
summary(ms, rows, c) ==
    LET mine == {m \in rows : ms[m].conv_id = c}
    IN [conv_id |-> c,
        latest_date |-> fromisoformat(
            CHOOSE d \in {ms[m].date_utc : m \in mine} :
                \A m \in mine : ~TextLess(d, ms[m].date_utc)),
        message_count |-> Cardinality(mine),
        unread_count |-> Cardinality({m \in mine : counted_unread(ms[m].flags)})]

\* the sequences that hold each element of S once
Orderings(S) ==
    {f \in [1..Cardinality(S) -> S] : \A i, j \in 1..Cardinality(S) : f[i] = f[j] => i = j}

\* as latest_first, but the oldest conversation first
oldest_first(f) ==
    \A i, j \in DOMAIN f :
        i < j => ~TextLess(isoformat(f[j].latest_date), isoformat(f[i].latest_date))

\* ORDER BY latest_date DESC
latest_first(f) ==
    \A i, j \in DOMAIN f :
        i < j => ~TextLess(isoformat(f[i].latest_date), isoformat(f[j].latest_date))

\* Cache.list_conversations(account, folder, unread_only, limit): the lists
\* the query can return, rows of one latest_date in any order
list_conversations(ms, account, folder, unread_only, limit) ==
    LET rows == listed_rows(ms, account, folder)
        all == {summary(ms, rows, c) : c \in {ms[m].conv_id : m \in rows}}
        having == {x \in all : ~unread_only \/ x.unread_count > 0}
    IN {SubSeq(f, 1, IF Len(f) < limit THEN Len(f) ELSE limit) :
          f \in {g \in Orderings(having) : latest_first(g)}}

\* Cache.list_conversations(account, folder, unread_only, limit), called by
\* itself
ListConversations(account, folder, unread_only, limit) ==
    /\ \E l \in list_conversations(messages, account, folder, unread_only, limit) :
          last' = [NoLast EXCEPT !.op = "list_conversations", !.account = account,
                                 !.from_folder = folder, !.status = "ok",
                                 !.result = Some(l), !.count = Len(l)]
    /\ UNCHANGED <<pipeline, mail>>

\* ------------------------------------------------------- conversations
\* WHERE conv_id LIKE ? with the parameter f"{prefix}%"
prefix_matches(prefix, conv_id) == Like(prefix \o <<"%">>, conv_id)

\* the conversations find_conversations_by_prefix groups
matching_convs(ms, prefix) ==
    {c \in {ms[m].conv_id : m \in DOMAIN ms} : prefix_matches(prefix, c)}

\* Cache.find_conversations_by_prefix(prefix): the lists the query can
\* return, rows of one latest_date in any order
find_conversations_by_prefix(ms, prefix) ==
    {f \in Orderings({summary(ms, DOMAIN ms, c) : c \in matching_convs(ms, prefix)}) :
        latest_first(f)}

\* Cache.get_conversation(conv_id): the conv_id of the conversation it
\* returns: the exact match, else the only prefix match
cache_get_conversation(ms, conv_id) ==
    IF \E m \in DOMAIN ms : ms[m].conv_id = conv_id THEN Some(conv_id)
    ELSE IF Cardinality(matching_convs(ms, conv_id)) = 1
      THEN Some(CHOOSE c \in matching_convs(ms, conv_id) : TRUE)
    ELSE Nothing

\* the messages of a conversation as _build_conversation gets them:
\* ORDER BY date_utc ASC, rows of one date in any order
conversation_messages(ms, c) ==
    {f \in Orderings({m \in DOMAIN ms : ms[m].conv_id = c}) :
        \A i, j \in DOMAIN f :
            i < j => ~TextLess(ms[f[j]].date_utc, ms[f[i]].date_utc)}

\* Cache._build_conversation(rows): the Conversation of the rows in the
\* order the query gave them
build_conversation(ms, order) ==
    [conv_id |-> ms[order[1]].conv_id,
     messages |-> order,
     message_count |-> Len(order),
     unread_count |-> Cardinality({i \in 1..Len(order) :
                                      SEEN \notin SeqToSet(ms[order[i]].flags)}),
     latest_date |-> CHOOSE d \in {fromisoformat(ms[order[i]].date_utc) : i \in 1..Len(order)} :
                        \A i \in 1..Len(order) :
                            Instant(d) >= Instant(fromisoformat(ms[order[i]].date_utc))]

\* Cache.get_conversation(conv_id), called by itself
CacheGetConversation(conv_id) ==
    LET base == [NoLast EXCEPT !.op = "cache_get_conversation", !.prefix = conv_id,
                               !.status = "ok",
                               !.result = cache_get_conversation(messages, conv_id)]
    IN /\ IF base.result = Nothing
            THEN last' = base
            ELSE \E order \in conversation_messages(messages, base.result[1]) :
                    last' = [base EXCEPT
                               !.conversation = Some(build_conversation(messages, order))]
       /\ UNCHANGED <<pipeline, mail>>

\* Cache.find_conversations_by_prefix(prefix), called by itself
FindConversationsByPrefix(prefix) ==
    /\ \E l \in find_conversations_by_prefix(messages, prefix) :
          last' = [NoLast EXCEPT !.op = "find_conversations_by_prefix",
                                 !.prefix = prefix, !.status = "ok",
                                 !.result = Some(l), !.count = Len(l)]
    /\ UNCHANGED <<pipeline, mail>>

\* the rows of conversation c
conversation_rows(ms, c) == {m \in DOMAIN ms : ms[m].conv_id = c}

\* MIN(account) over account names: SQLite compares the texts byte by byte
min_account(S) ==
    IF "a1" \in S THEN "a1" ELSE IF "a2" \in S THEN "a2" ELSE "ghost"

\* the ConversationSummary find_conversations_by_prefix builds of the GROUP BY
\* row of c: participants is GROUP_CONCAT(DISTINCT from_addr) split at the
\* commas (read as a set), account is MIN(account)
conversation_summary(ms, c) ==
    summary(ms, DOMAIN ms, c)
      @@ [participants |-> {ms[m].from_addr : m \in conversation_rows(ms, c)},
          account |-> min_account({ms[m].account : m \in conversation_rows(ms, c)})]

\* the Conversation _build_conversation builds of the rows in the order the
\* query gave them: participants holds from_.addr and the addresses of to and
\* cc of every message (sorted; read as a set), account is that of the first
\* message
materialized_conversation(ms, order) ==
    build_conversation(ms, order)
      @@ [participants |->
            UNION {{ms[order[i]].from_addr} \cup SeqToSet(ms[order[i]].to_json)
                      \cup SeqToSet(ms[order[i]].cc_json) : i \in 1..Len(order)},
          account |-> ms[order[1]].account]

\* Cache.find_conversations_by_prefix(conv_id) of a whole stored conv_id
FindSummary(c) ==
    /\ c \in {messages[m].conv_id : m \in DOMAIN messages}
    /\ last' = [NoLast EXCEPT !.op = "find_conversations_by_prefix", !.prefix = c,
                              !.status = "ok",
                              !.result = Some(<<conversation_summary(messages, c)>>),
                              !.count = 1]
    /\ UNCHANGED <<pipeline, mail>>

\* Cache.get_conversation(conv_id) of a whole stored conv_id
GetStoredConversation(c) ==
    /\ c \in {messages[m].conv_id : m \in DOMAIN messages}
    /\ \E order \in conversation_messages(messages, c) :
          last' = [NoLast EXCEPT !.op = "cache_get_conversation", !.prefix = c,
                                 !.status = "ok", !.result = Some(c),
                                 !.conversation = Some(materialized_conversation(messages, order))]
    /\ UNCHANGED <<pipeline, mail>>

\* the loop of ClerkAPI.get_conversation over the messages from the i-th on:
\* each body refill has its own connection, and one that raises ends the call
RECURSIVE fetch_bodies(_, _, _, _, _, _, _, _, _, _)
fetch_bodies(order, i, ms, srv, folders, n, fresh, nets, parts, t) ==
    IF i > Len(order)
      THEN [raised |-> FALSE, messages |-> ms, sessions |-> n, fetched |-> {},
            effects |-> <<>>]
    ELSE IF ~needs_body(ms, order[i], fresh, t)
      THEN fetch_bodies(order, i + 1, ms, srv, folders, n, fresh, nets, parts, t)
    ELSE
      LET r == refill(ms, srv, folders, n, order[i], nets[order[i]], parts[order[i]], t)
          rest == fetch_bodies(order, i + 1, r.messages, srv, folders, r.sessions,
                               fresh, nets, parts, t)
      IN IF r.raised
           THEN [raised |-> TRUE, messages |-> r.messages, sessions |-> r.sessions,
                 fetched |-> {}, effects |-> r.effects]
           ELSE [raised |-> rest.raised, messages |-> rest.messages,
                 sessions |-> rest.sessions,
                 fetched |-> {order[i]} \cup rest.fetched,
                 effects |-> r.effects \o rest.effects]

\* ClerkAPI.get_conversation(conv_id, fresh)
GetConversation(conv_id, fresh, nets, parts) ==
    LET base == [NoLast EXCEPT !.op = "get_conversation", !.prefix = conv_id,
                               !.fresh = fresh]
        found == cache_get_conversation(messages, conv_id)
    IN IF found = Nothing
         THEN /\ last' = [base EXCEPT !.status = "ok"]
              /\ UNCHANGED <<pipeline, mail>>
         ELSE \E order \in conversation_messages(messages, found[1]) :
                LET r == fetch_bodies(order, 1, messages, server, server_folders,
                                      sessions, fresh, nets, parts, now)
                IN /\ messages' = r.messages
                   /\ sessions' = r.sessions
                   /\ last' = [base EXCEPT
                          !.status = IF r.raised THEN "raised" ELSE "ok",
                          !.error = IF r.raised THEN "server_failed" ELSE "none",
                          !.effects = r.effects,
                          !.fetched = r.fetched,
                          !.result = IF r.raised THEN Nothing ELSE Some(found[1]),
                          !.conversation =
                              IF r.raised THEN Nothing
                              ELSE Some(build_conversation(messages, order))]
                   /\ UNCHANGED <<pipeline, server, server_folders, cache_meta>>

\* ----------------------------------------------------------------- replies
\* account_config.from_.address of a configured account
from_address(account) == IF account = default_account THEN Carol ELSE <<"d", "@", "x">>

\* subject.lower().startswith("re:")
starts_with_re(subject) ==
    Len(subject) >= 3 /\ Lower(SubSeq(subject, 1, 3)) = <<"r", "e", ":">>

\* as reply_subject, but subject.startswith("Re:")
reply_subject_exact(subject) ==
    IF Len(subject) >= 3 /\ SubSeq(subject, 1, 3) = <<"R", "e", ":">>
      THEN subject ELSE <<"R", "e", ":", " ">> \o subject

\* the subject of the reply: f"Re: {subject}" unless it starts with re:
reply_subject(subject) ==
    IF starts_with_re(subject) THEN subject ELSE <<"R", "e", ":", " ">> \o subject

\* the references of the reply: those of the latest message, then its id
\* unless it is among them
reply_references(references, message_id) ==
    IF message_id \in SeqToSet(references) THEN references
    ELSE Append(references, message_id)

\* the Cc of a reply to all: the To and Cc of the latest message but the
\* account's own address and the sender
reply_cc(row, my_addr) ==
    SelectSeq(row.to_json \o row.cc_json,
              LAMBDA a : Lower(a) # Lower(my_addr) /\ a # row.from_addr)

\* DraftManager.create_reply(account, conv_id, body_text, reply_all)
CreateReply(account, conv_id, reply_all) ==
    LET base == [NoLast EXCEPT !.op = "create_reply", !.account = account,
                               !.prefix = conv_id]
        found == cache_get_conversation(messages, conv_id)
    IN IF found = Nothing \/ get_account(account) = ValueError
         THEN /\ last' = [base EXCEPT !.status = "raised", !.error = ValueError]
              /\ UNCHANGED <<pipeline, mail>>
         ELSE \E order \in conversation_messages(messages, found[1]) :
                LET latest == order[Len(order)]
                    row == messages[latest]
                    c == [to |-> <<row.from_addr>>,
                          cc |-> IF reply_all THEN reply_cc(row, from_address(account))
                                 ELSE <<>>,
                          bcc |-> <<>>,
                          subject |-> reply_subject(row.subject)]
                    draft == MkDraft(next_draft + 1, account, c)
                               @@ [reply_to_conv_id |-> conv_id,
                                   in_reply_to |-> latest,
                                   references |-> reply_references(row.references_json,
                                                                   latest)]
                IN /\ next_draft' = next_draft + 1
                   /\ drafts' = Put(drafts, next_draft + 1, draft)
                   /\ last' = [base EXCEPT !.status = "ok", !.draft_id = next_draft + 1,
                                           !.msg = latest]
                   /\ UNCHANGED <<now, tokens, next_token, rate_limiters, send_log,
                                  next_msgid, hist, mail, workers>>

\* ConversationLookupResult: conversation (its conv_id), matches, error,
\* each unset unless the constructor call names it
ConversationLookupResult(conversation, matches, error) ==
    [conversation |-> conversation, matches |-> matches, error |-> error]

\* ClerkAPI.resolve_conversation_id(conv_id, fresh): get_conversation with
\* its body refills, then find_conversations_by_prefix if that found nothing
ResolveConversationId(conv_id, fresh, nets, parts) ==
    LET base == [NoLast EXCEPT !.op = "resolve_conversation_id",
                               !.prefix = conv_id, !.fresh = fresh]
        found == cache_get_conversation(messages, conv_id)
    IN IF found # Nothing
         THEN \E order \in conversation_messages(messages, found[1]) :
                LET r == fetch_bodies(order, 1, messages, server, server_folders,
                                      sessions, fresh, nets, parts, now)
                IN /\ messages' = r.messages
                   /\ sessions' = r.sessions
                   /\ last' = [base EXCEPT
                          !.status = IF r.raised THEN "raised" ELSE "ok",
                          !.error = IF r.raised THEN "server_failed" ELSE "none",
                          !.effects = r.effects,
                          !.fetched = r.fetched,
                          !.result = IF r.raised THEN Nothing
                                     ELSE Some(ConversationLookupResult(found, Nothing, None))]
                   /\ UNCHANGED <<pipeline, server, server_folders, cache_meta>>
         ELSE \E l \in find_conversations_by_prefix(messages, conv_id) :
                /\ last' = [base EXCEPT
                       !.status = "ok",
                       !.result = Some(IF l # <<>>
                                         THEN ConversationLookupResult(Nothing, Some(l), None)
                                         ELSE ConversationLookupResult(Nothing, Nothing,
                                                                       "no_conversation_matching"))]
                /\ UNCHANGED <<pipeline, mail>>

\* the ENVELOPE and threading headers the server holds of each message
Envelope(m) ==
    IF m = "m1" THEN [date |-> Utc(0), in_reply_to |-> None, references |-> <<>>]
    ELSE IF m = "m2"
      THEN [date |-> Utc(DaySeconds), in_reply_to |-> "m1", references |-> <<"m1">>]
    ELSE [date |-> Utc(2 * DaySeconds), in_reply_to |-> None, references |-> <<>>]

\* imap_flags_to_model: the flags of the FETCH response as a list
imap_flags_to_model(flags) ==
    (IF SEEN \in flags THEN <<SEEN>> ELSE <<>>)
    \o (IF FLAGGED \in flags THEN <<FLAGGED>> ELSE <<>>)
    \o (IF DELETED \in flags THEN <<DELETED>> ELSE <<>>)

\* ImapClient.fetch_messages(folder, unread_only, fetch_bodies=False) at
\* time t: the parsed messages by message id, fewer than the limit
fetch_messages(srv, folders, account, folder, unread_only, net, t) ==
    IF folder \notin folders \/ net # "ok"
      THEN [ok |-> FALSE, messages |-> <<>>]
      ELSE [ok |-> TRUE,
            messages |->
              [m \in {k[2] : k \in {x \in DOMAIN srv :
                                        /\ x[1] = folder
                                        /\ ~(unread_only /\ SEEN \in srv[x])}} |->
                  parse_message(account, folder,
                      compute_conv_id(m, Envelope(m).references, Envelope(m).in_reply_to),
                      imap_flags_to_model(srv[<<folder, m>>]), Envelope(m).date,
                      {}, FALSE, t)]]

\* as store_all, but INSERT OR IGNORE: a row already stored is kept
store_all_keeps_stored(ms, fetched) ==
    [m \in DOMAIN ms \cup DOMAIN fetched |->
        IF m \in DOMAIN ms THEN ms[m] ELSE fetched[m]]

\* `for msg in messages: self.cache.store_message(msg)`
store_all(ms, fetched) ==
    [m \in DOMAIN ms \cup DOMAIN fetched |->
        IF m \in DOMAIN fetched THEN fetched[m] ELSE ms[m]]

\* as served_from_cache, but an inbox synced once is served from the store
\* for ever
served_once_synced(meta, account, fresh, t) ==
    ~fresh /\ InboxSyncKey(account) \in DOMAIN meta

\* as served_from_cache, but every list_inbox goes to the server
always_from_server(meta, account, fresh, t) == FALSE

\* the test of list_inbox that serves the listing from the store
served_from_cache(meta, account, fresh, t) ==
    ~fresh /\ is_inbox_fresh(meta, account, inbox_freshness_min, t)

\* ClerkAPI.list_inbox(account, folder, limit, unread_only, fresh)
ListInbox(account, folder, limit, unread_only, fresh, net) ==
    LET name == get_account(account)
        base == [NoLast EXCEPT !.op = "list_inbox", !.account = name,
                               !.from_folder = folder, !.fresh = fresh]
    IN IF name = ValueError
         THEN /\ last' = [base EXCEPT !.status = "raised", !.error = "unknown_account"]
              /\ UNCHANGED <<pipeline, mail>>
       ELSE IF served_from_cache(cache_meta, name, fresh, now)
         THEN /\ \E l \in list_conversations(messages, name, folder, unread_only, limit) :
                    last' = [base EXCEPT !.status = "ok", !.result = Some(l),
                                         !.count = Len(l), !.from_cache = TRUE]
              /\ UNCHANGED <<pipeline, mail>>
       ELSE IF net \in ConnectFailures
         THEN /\ last' = [base EXCEPT !.status = "raised", !.error = net,
                                      !.effects = <<net>>]
              /\ sessions' = with_client(sessions, net)
              /\ UNCHANGED <<pipeline, messages, cache_meta, server, server_folders>>
       ELSE
         LET f == fetch_messages(server, server_folders, name, folder, unread_only, net, now)
             stored == store_all(messages, f.messages)
             pruned == prune_old_messages(stored, window_days, now)
         IN /\ sessions' = with_client(sessions, net)
            /\ UNCHANGED <<pipeline, server, server_folders>>
            /\ IF ~f.ok
                 THEN /\ last' = [base EXCEPT !.status = "raised", !.error = "server_failed",
                                              !.effects = <<"connect", "server_failed">>]
                      /\ UNCHANGED <<messages, cache_meta>>
                 ELSE /\ messages' = pruned
                      /\ cache_meta' = mark_inbox_synced(cache_meta, name, now)
                      /\ \E l \in list_conversations(pruned, name, folder, unread_only, limit) :
                            last' = [base EXCEPT
                                !.status = "ok", !.result = Some(l), !.count = Len(l),
                                !.from_cache = FALSE,
                                !.effects = <<"connect", "server", "store", "synced", "prune">>]

\* ImapClient.fetch_messages(folder, fetch_bodies=True): as fetch_messages,
\* every message parsed with its body (parts: the MIME parts the server sends)
fetch_messages_with_bodies(srv, folders, account, folder, net, parts, t) ==
    IF folder \notin folders \/ net # "ok"
      THEN [ok |-> FALSE, messages |-> <<>>]
      ELSE [ok |-> TRUE,
            messages |->
              [m \in {k[2] : k \in {x \in DOMAIN srv : x[1] = folder}} |->
                  parse_message(account, folder,
                      compute_conv_id(m, Envelope(m).references, Envelope(m).in_reply_to),
                      imap_flags_to_model(srv[<<folder, m>>]), Envelope(m).date,
                      parts, TRUE, t)]]

\* as synced_meta, but the account is marked synced whether or not the fetch
\* returned
synced_meta_regardless(ok, meta, account, t) == mark_inbox_synced(meta, account, t)

\* cache_meta after the `with get_imap_client(...)` block of a sync: the
\* mark_inbox_synced statement follows the fetch and the store loop, so an
\* exception of the connection or of the fetch leaves the block before it
synced_meta(ok, meta, account, t) ==
    IF ok THEN mark_inbox_synced(meta, account, t) ELSE meta

\* ClerkAPI.refresh_cache(account, folder, limit): always the server path
RefreshCache(account, folder, net, parts) ==
    LET name == get_account(account)
        base == [NoLast EXCEPT !.op = "refresh_cache", !.account = name,
                               !.from_folder = folder]
    IN IF name = ValueError
         THEN /\ last' = [base EXCEPT !.status = "raised", !.error = "unknown_account"]
              /\ UNCHANGED <<pipeline, mail>>
       ELSE
         LET connected == net \notin ConnectFailures
             f == fetch_messages_with_bodies(server, server_folders, name, folder,
                                             net, parts, now)
             ok == connected /\ f.ok
             stored == store_all(messages, f.messages)
         IN /\ sessions' = with_client(sessions, net)
            /\ UNCHANGED <<pipeline, server, server_folders>>
            /\ messages' = IF ok THEN prune_old_messages(stored, window_days, now)
                                 ELSE messages
            /\ cache_meta' = synced_meta(ok, cache_meta, name, now)
            /\ last' = IF ~connected
                         THEN [base EXCEPT !.status = "raised", !.error = net,
                                           !.effects = <<net>>]
                       ELSE IF ~f.ok
                         THEN [base EXCEPT !.status = "raised", !.error = "server_failed",
                                           !.effects = <<"connect", "server_failed">>]
                         ELSE [base EXCEPT
                                 !.status = "ok",
                                 !.count = Cardinality(DOMAIN f.messages),
                                 !.from_cache = FALSE,
                                 !.effects = <<"connect", "server", "store", "synced", "prune">>]

\* ---------------------------------------------------------- specifications
\* the token strings a caller presents: every token ever issued, and 0 (none)
TokenInputs == 0..MaxTokens

CleanContents == {c \in DraftContents : c.to = <<Bob>> /\ c.cc = <<>> /\ c.bcc = <<>>}
SendContents == {c \in DraftContents : c.cc = <<>> /\ c.bcc = <<>> /\ c.subject = "hello"}

\* The send pipeline over the rate window: every path to SMTP.
SendDraftIds == 1..MaxSendDrafts

Next ==
    \/ Tick(RateTimes)
    \/ /\ next_draft < MaxSendDrafts
       /\ \E a \in Accounts, c \in SendContents : CreateDraft(a, c)
    \/ \E d \in SendDraftIds, a \in Accounts, c \in SendContents : UpdateDraft(d, a, c)
    \/ \E d \in SendDraftIds, a \in AccountNames \cup {None} :
          SendDraft(d, a, RateTimes) /\ next_msgid' <= MaxGateDispatch
    \/ \E d \in SendDraftIds, skip \in BOOLEAN :
          ApiSendDraft(d, skip, RateTimes) /\ next_msgid' <= MaxGateDispatch
    \/ \E d \in SendDraftIds, proceed \in BOOLEAN :
          CliSend(d, proceed, RateTimes) /\ next_msgid' <= MaxGateDispatch
    \/ \E d \in SendDraftIds, confirm \in BOOLEAN, tok \in 0..MaxGateTokens :
          /\ ClerkSend(d, confirm, tok, RateTimes)
          /\ next_msgid' <= MaxGateDispatch
          /\ next_token' <= MaxGateTokens

Spec == Init /\ [][Next]_vars

\* Direct calls of send_draft over the rate window.
NextRate ==
    \/ Tick(RateTimes)
    \/ /\ next_draft < MaxSendDrafts
       /\ \E a \in Accounts, c \in CleanContents : CreateDraft(a, c)
    \/ \E d \in SendDraftIds, a \in Accounts, c \in CleanContents : UpdateDraft(d, a, c)
    \/ \E d \in SendDraftIds, a \in Accounts \cup {None} :
          SendDraft(d, a, RateTimes) /\ next_msgid' <= MaxDispatch

SpecRate == Init /\ [][NextRate]_vars

\* Every path to SMTP for drafts with a blocked recipient in To, Cc or Bcc.
NextBlock ==
    \/ /\ next_draft < MaxSendDrafts
       /\ \E c \in DraftContents : CreateDraft(default_account, c)
    \/ \E d \in SendDraftIds, c \in DraftContents : UpdateDraft(d, default_account, c)
    \/ \E d \in SendDraftIds :
          SendDraft(d, None, RateTimes) /\ next_msgid' <= MaxGateDispatch
    \/ \E d \in SendDraftIds, skip \in BOOLEAN :
          ApiSendDraft(d, skip, RateTimes) /\ next_msgid' <= MaxGateDispatch
    \/ \E d \in SendDraftIds, proceed \in BOOLEAN :
          CliSend(d, proceed, RateTimes) /\ next_msgid' <= MaxGateDispatch
    \/ \E d \in SendDraftIds, confirm \in BOOLEAN, tok \in 0..MaxTokens :
          /\ ClerkSend(d, confirm, tok, RateTimes)
          /\ next_msgid' <= MaxGateDispatch
          /\ next_token' <= MaxTokens

SpecBlock == Init /\ [][NextBlock]_vars

\* The store under its own operations, the drafts and the sends.
StoreRows == {r \in MessageRows : r.body_text = None}

NextStore ==
    \/ /\ next_draft < MaxSendDrafts
       /\ \E c \in CleanContents : CreateDraft(default_account, c)
    \/ \E d \in SendDraftIds, c \in CleanContents : UpdateDraft(d, default_account, c)
    \/ \E d \in SendDraftIds : DeleteDraft(d)
    \/ \E d \in SendDraftIds :
          SendDraft(d, None, RateTimes) /\ next_msgid' <= MaxGateDispatch
    \/ \E m \in MessageIds, row \in StoreRows : StoreMessage(m, row)
    \/ \E m \in MessageIds, fl \in {<<>>, <<FLAGGED>>} : UpdateFlags(m, fl)
    \/ \E m \in MessageIds : UpdateBody(m, "text", None)
    \/ \E m \in MessageIds, f \in {INBOX, "Archive"} : CacheMoveMessage(m, f)
    \/ \E m \in MessageIds : DeleteMessage(m)
    \/ PruneOldMessages(window_days)
    \/ ClearCache

SpecStore == Init /\ [][NextStore]_vars

\* The facade's message actions against the server and its mirror.
MirrorRows ==
    {r \in MessageRows : r.folder = INBOX /\ r.body_text = None /\ r.date_utc = isoformat(Utc(0)) /\ r.flags = <<>>}
MirrorAccounts == {None, "ghost"}
FlagNet == NetOutcomes \ {"expunge_failed"}
\* the messages the server holds and the calls name; the others are only in
\* the store
Delivered == {"m1"}

NextMirror ==
    \/ \E m \in Delivered : ServerDeliver(m)
    \/ /\ Cardinality(server_folders) < MaxFolders
       /\ \E f \in {"Archive", "[Gmail]/All Mail"} : ServerCreateFolder(f)
    \/ \E m \in MessageIds, row \in MirrorRows : StoreMessage(m, row)
    \/ \E m \in Delivered, a \in MirrorAccounts, net \in FlagNet : MarkRead(m, a, net)
    \/ \E m \in Delivered, a \in MirrorAccounts, net \in FlagNet : MarkUnread(m, a, net)
    \/ \E m \in Delivered, a \in MirrorAccounts, net \in FlagNet : FlagMessage(m, a, net)
    \/ \E m \in Delivered, a \in MirrorAccounts, net \in FlagNet : UnflagMessage(m, a, net)
    \/ \E m \in Delivered, a \in MirrorAccounts, net \in NetOutcomes,
          to \in {INBOX, "Archive"}, from \in {INBOX, "Archive"} :
          MoveMessage(m, to, from, a, net)
    \/ \E m \in Delivered, a \in MirrorAccounts, net \in NetOutcomes :
          ArchiveMessage(m, a, net)

SpecMirror == Init /\ [][NextMirror]_vars

\* The two-step confirmation over the token lifetime.
NextToken ==
    \/ Tick(TokenTimes)
    \/ /\ next_draft < MaxDrafts
       /\ \E c \in CleanContents : CreateDraft(default_account, c)
    \/ \E d \in DraftIds, c \in CleanContents : UpdateDraft(d, default_account, c)
    \/ \E d \in DraftIds : DeleteDraft(d)
    \/ \E d \in DraftIds : ClerkDeleteDraft(d)
    \/ \E d \in DraftIds, tok \in 1..MaxTokens : ValidateToken(d, tok)
    \/ /\ next_msgid < MaxDispatch
       /\ \E d \in DraftIds, confirm \in BOOLEAN, tok \in TokenInputs :
             /\ confirm \/ next_token < MaxTokens
             /\ ClerkSend(d, confirm, tok, TokenTimes)

SpecToken == Init /\ [][NextToken]_vars

\* The read paths: cached messages, their flags and their lazily fetched
\* bodies.
ReadRows(t) ==
    { parse_message(default_account, INBOX, sha12("m1"), fl, Utc(0), parts, has_body, t) :
        fl \in {<<>>, <<FLAGGED>>}, parts \in BodyParts, has_body \in BOOLEAN }
ReadNet == {"ok", "auth_failed", "command_failed"}

NextRead ==
    \/ Tick(RateTimes)
    \/ Reclaim
    \/ \E m \in Delivered : ServerDeliver(m)
    \/ \E m \in Delivered, row \in ReadRows(now) : StoreMessage(m, row)
    \/ \E m \in Delivered, net \in ReadNet :
          MarkRead(m, None, net) /\ sessions' <= MaxSessions
    \/ \E m \in Delivered, fresh \in BOOLEAN, net \in ReadNet, parts \in BodyParts :
          GetMessage(m, fresh, net, parts) /\ sessions' <= MaxSessions

SpecRead == Init /\ [][NextRead]_vars

\* The inbox listing over the inbox freshness window.
InboxAccounts == {None, "a2", "ghost"}
\* a row older than the cache window, as an earlier sync left it
OldRow ==
    parse_message(default_account, INBOX, sha12("m3"), <<>>,
                  Utc(0 - window_days * DaySeconds - 1), {}, FALSE, 0)

NextInbox ==
    \/ Tick(TokenTimes)
    \/ Reclaim
    \/ \E m \in {"m1", "m2"} : ServerDeliver(m)
    \/ StoreMessage("m3", OldRow)
    \/ ClearCache
    \/ \E a \in InboxAccounts, unread_only \in BOOLEAN, fresh \in BOOLEAN, net \in ReadNet :
          /\ ListInbox(a, INBOX, default_limit, unread_only, fresh, net)
          /\ sessions' <= MaxSessions

SpecInbox == Init /\ [][NextInbox]_vars

\* The bodies of a two-message conversation over the body freshness window.
BodyIds == {"m1", "m2"}
BodyRows(m, t) ==
    { parse_message(default_account, INBOX,
                    compute_conv_id(m, Envelope(m).references, Envelope(m).in_reply_to),
                    <<>>, Envelope(m).date, parts, has_body, t) :
        parts \in BodyParts, has_body \in BOOLEAN }
BodyNet == {"ok", "command_failed"}

NextBody ==
    \/ Tick(RateTimes)
    \/ ServerDeliver("m1")
    \/ \E m \in BodyIds : \E row \in BodyRows(m, now) : StoreMessage(m, row)
    \/ \E m \in BodyIds, fresh \in BOOLEAN, net \in BodyNet, parts \in BodyParts :
          GetMessage(m, fresh, net, parts)
    \/ \E fresh \in BOOLEAN, nets \in [BodyIds -> BodyNet],
          parts \in [BodyIds -> {{}, {"text/plain"}}] :
          GetConversation(sha12("m1"), fresh, nets, parts)

SpecBody == Init /\ [][NextBody]_vars

\* Whole messages through the store and back.
Addr(a, n) == [addr |-> a, name |-> n]
FullMessages ==
    { [message_id |-> m, conv_id |-> sha12("m1"), account |-> default_account,
       folder |-> INBOX, from_ |-> Addr(Bob, v.name), to |-> v.to, cc |-> <<>>,
       reply_to |-> <<>>, date |-> v.date, subject |-> v.subject,
       body_text |-> v.body_text, body_html |-> None, attachments |-> <<>>,
       flags |-> v.flags, in_reply_to |-> v.in_reply_to, references |-> v.references,
       headers_fetched_at |-> v.headers_fetched_at,
       body_fetched_at |-> v.body_fetched_at] :
        m \in MessageIds,
        v \in { [name |-> "", to |-> <<>>, date |-> Utc(0), subject |-> "",
                 body_text |-> None, flags |-> <<>>, in_reply_to |-> None,
                 references |-> <<>>, headers_fetched_at |-> Nothing,
                 body_fetched_at |-> Nothing],
                [name |-> "Bob", to |-> <<Addr(Carol, "Carol")>>,
                 date |-> [wall |-> HourSeconds, off |-> HourSeconds, aware |-> TRUE],
                 subject |-> "hello", body_text |-> "text", flags |-> <<SEEN, FLAGGED>>,
                 in_reply_to |-> "m1", references |-> <<"m1">>,
                 headers_fetched_at |-> Some(Utc(0)), body_fetched_at |-> Some(Utc(0))],
                [name |-> "", to |-> <<Addr(Carol, "")>>, date |-> Naive(1),
                 subject |-> "other", body_text |-> None, flags |-> <<FLAGGED>>,
                 in_reply_to |-> None, references |-> <<>>,
                 headers_fetched_at |-> Some(Utc(1)), body_fetched_at |-> Nothing] } }

NextRoundTrip ==
    \/ Tick(TokenTimes)
    \/ \E msg \in FullMessages : StoreFullMessage(msg)
    \/ \E m \in MessageIds : CacheGetMessage(m)
    \/ \E m \in MessageIds : DeleteMessage(m)

SpecRoundTrip == Init /\ [][NextRoundTrip]_vars

\* Pruning: rows dated around the cutoff, by clocks at UTC and an hour off.
PruneWindows == {1, window_days}
PruneDates ==
    { [wall |-> 0 - w * DaySeconds + d + off, off |-> off, aware |-> TRUE] :
        w \in PruneWindows, d \in {0 - 1, 0, 1}, off \in {0 - HourSeconds, 0, HourSeconds} }
PruneRows ==
    { [account |-> default_account, folder |-> INBOX, conv_id |-> sha12("m1"),
       flags |-> <<>>, date_utc |-> isoformat(d), body_text |-> None,
       body_html |-> None, body_fetched_at |-> Nothing] : d \in PruneDates }

NextPrune ==
    \/ Tick({0, 1})
    \/ /\ next_draft < MaxSendDrafts
       /\ \E c \in CleanContents : CreateDraft(default_account, c)
    \/ \E m \in MessageIds, row \in PruneRows : StoreMessage(m, row)
    \/ \E w \in PruneWindows : PruneOldMessages(w)

SpecPrune == Init /\ [][NextPrune]_vars

\* Clearing a store that holds messages, sync times, drafts and sends.
NextClear ==
    \/ /\ next_draft < MaxSendDrafts
       /\ \E c \in CleanContents : CreateDraft(default_account, c)
    \/ \E d \in SendDraftIds, c \in CleanContents : UpdateDraft(d, default_account, c)
    \/ \E d \in SendDraftIds :
          SendDraft(d, None, {0}) /\ next_msgid' <= MaxSendDrafts
    \/ \E msg \in {x \in FullMessages : x.headers_fetched_at # Nothing} :
          StoreFullMessage(msg)
    \/ \E m \in MessageIds : CacheGetMessage(m)
    \/ \E a \in Accounts : MarkInboxSynced(a)
    \/ \E a \in Accounts : IsInboxFresh(a)
    \/ ClearCache

SpecClear == Init /\ [][NextClear]_vars

\* The thread m1, m2 (a reply to m1), m3 listed at clocks up to and past
\* the cache window after their dates.
ThreadTimes ==
    {2 * DaySeconds, window_days * DaySeconds - 1, window_days * DaySeconds,
     (window_days + 2) * DaySeconds + 1}

NextThread ==
    \/ Tick(ThreadTimes)
    \/ \E m \in ThreadIds : ServerDeliver(m)
    \/ ClearCache
    \/ \E fresh \in BOOLEAN, net \in BodyNet :
          ListInbox(None, INBOX, default_limit, FALSE, fresh, net)

SpecThread == Init /\ [][NextThread]_vars

\* Conversation lookups by id and by prefix.
ConvIds == {sha12(m) : m \in ThreadIds}
PrefixRows(m) ==
    { parse_message(default_account, INBOX, c, <<>>, Envelope(m).date, {}, FALSE, 0) :
        c \in ConvIds }
\* what a caller types: whole ids, prefixes of them, and other texts
Prefixes ==
    ConvIds \cup {<<>>, <<"a">>, <<"a", "b">>, <<"e">>, <<"b">>,
                  <<"A", "B">>, <<"a", "_">>, <<"%">>}

NextPrefix ==
    \/ \E m \in ThreadIds : \E row \in PrefixRows(m) : StoreMessage(m, row)
    \/ \E m \in ThreadIds : DeleteMessage(m)
    \/ \E p \in Prefixes : CacheGetConversation(p)
    \/ \E p \in Prefixes : FindConversationsByPrefix(p)

SpecPrefix == Init /\ [][NextPrefix]_vars

\* Resolving what a caller types to a conversation, a list or an error.
ResolveIds == {"m1", "m2"}
ResolveRows(m) ==
    { parse_message(default_account, INBOX, c, <<>>, Envelope(m).date,
                    {"text/plain"}, b, 0) :
        c \in ConvIds, b \in BOOLEAN }
ResolveNet == {"ok", "command_failed"}

NextResolve ==
    \/ \E m \in ResolveIds : \E row \in ResolveRows(m) : StoreMessage(m, row)
    \/ \E m \in ResolveIds : DeleteMessage(m)
    \/ ServerDeliver("m1")
    \/ \E p \in Prefixes, fresh \in BOOLEAN, net \in ResolveNet :
          ResolveConversationId(p, fresh, [m \in ThreadIds |-> net],
                                [m \in ThreadIds |-> {"text/plain"}])

SpecResolve == Init /\ [][NextResolve]_vars

\* Threading lists of parsed messages: replies with and without a References
\* header, to messages in the list and to one that is not.
ThreadHeaders ==
    { [references |-> <<>>, in_reply_to |-> None],
      [references |-> <<>>, in_reply_to |-> "m1"],
      [references |-> <<>>, in_reply_to |-> "m2"],
      [references |-> <<"m1">>, in_reply_to |-> "m1"],
      [references |-> <<"m1", "m2">>, in_reply_to |-> "m2"],
      [references |-> <<"m0">>, in_reply_to |-> "m0"] }
\* the row store_message writes of the message m parsed with the headers h
ThreadingRow(m, h, flags) ==
    parse_message(default_account, INBOX, compute_conv_id(m, h.references, h.in_reply_to),
                  flags, Envelope(m).date, {}, FALSE, 0)
      @@ [in_reply_to |-> h.in_reply_to, references_json |-> h.references]
\* a message answers messages sent before it
SentBefore(m) ==
    CASE m = "m1" -> {"m0"}
      [] m = "m2" -> {"m0", "m1"}
      [] OTHER -> {"m0", "m1", "m2"}
ThreadingRows(m) ==
    { ThreadingRow(m, h, flags) :
        h \in {x \in ThreadHeaders :
                 /\ SeqToSet(x.references) \subseteq SentBefore(m)
                 /\ x.in_reply_to \in SentBefore(m) \cup {None}},
        flags \in {<<>>, <<SEEN>>} }

NextThreading ==
    \/ \E m \in ThreadIds : \E row \in ThreadingRows(m) : StoreMessage(m, row)
    \/ \E m \in ThreadIds : DeleteMessage(m)
    \/ \E order \in Orderings(DOMAIN messages) :
          ThreadMessages([i \in 1..Len(order) |-> stored_message(messages, order[i])])

SpecThreading == Init /\ [][NextThreading]_vars

\* Unread counts: rows of three messages in one or two conversations, their
\* flags set at store time and changed afterwards.
UnreadFlags == {<<>>, <<SEEN>>, <<FLAGGED>>, <<FLAGGED, SEEN>>}
UnreadRows(m) ==
    { ThreadingRow(m, h, flags) :
        h \in {x \in ThreadHeaders :
                 /\ x.references \in {<<>>, <<"m1">>}
                 /\ x.in_reply_to \in {None, "m1"}
                 /\ (m = "m1" => x.in_reply_to = None)},
        flags \in {<<>>, <<SEEN>>} }

NextUnread ==
    \/ \E m \in ThreadIds : \E row \in UnreadRows(m) : StoreMessage(m, row)
    \/ \E m \in ThreadIds, flags \in UnreadFlags : UpdateFlags(m, flags)
    \/ \E c \in ConvIds : CacheGetConversation(c)
    \/ \E p \in {<<>>, <<"a">>, <<"e">>} : FindConversationsByPrefix(p)
    \/ \E unread_only \in BOOLEAN :
          ListConversations(default_account, INBOX, unread_only, default_limit)
    \/ \E order \in Orderings(DOMAIN messages) :
          ThreadMessages([i \in 1..Len(order) |-> stored_message(messages, order[i])])

SpecUnread == Init /\ [][NextUnread]_vars

\* Replies: a conversation of one or two messages, the later one with
\* subjects that do and do not start with Re:, answered from a configured
\* account and from an unknown one.
Topic == <<"T">>
ReplySubjects ==
    { Topic, <<"R", "e", ":", " ">> \o Topic, <<"R", "E", ":", " ">> \o Topic,
      <<"R", "e", "f">>, <<>> }
ReplyRow(m, h, subject, to) ==
    ThreadingRow(m, h, <<>>)
      @@ [from_addr |-> Bob, subject |-> subject, to_json |-> to, cc_json |-> <<Bob>>]
ReplyRows(m) ==
    IF m = "m1"
      THEN { ReplyRow(m, [references |-> <<>>, in_reply_to |-> None], Topic, <<Carol>>) }
      ELSE { ReplyRow(m, h, subject, <<Carol, SpamLower>>) :
               h \in {x \in ThreadHeaders : x.references \in {<<>>, <<"m1">>, <<"m0">>}
                                            /\ x.in_reply_to \in {None, "m1", "m0"}},
               subject \in ReplySubjects }

NextReply ==
    \/ \E m \in {"m1", "m2"} : \E row \in ReplyRows(m) : StoreMessage(m, row)
    \/ \E m \in {"m1", "m2"} : DeleteMessage(m)
    \/ /\ next_draft < MaxSendDrafts
       /\ \E account \in {default_account, "ghost"},
             conv_id \in {sha12("m1"), sha12("m0"), <<"a">>, <<"e">>},
             reply_all \in BOOLEAN :
             CreateReply(account, conv_id, reply_all)
    \/ \E d \in DraftIds : DeleteDraft(d)

SpecReply == Init /\ [][NextReply]_vars

\* Raw queries: reads in either letter case with and without a LIMIT of
\* their own, writes, and texts of several statements.
RawStatements ==
    { "SELECT * FROM messages",
      "  select * from messages;",
      "SELECT * FROM messages LIMIT 3",
      "SELECT * FROM messages WHERE folder != 'limit'",
      "DELETE FROM messages",
      "  delete from messages",
      "REPLACE INTO cache_meta VALUES ('limit', '0')",
      "SELECT * FROM messages; DELETE FROM messages",
      "SELECT 1; replace into cache_meta values ('limit', '0')",
      "WITH x AS (SELECT 1) DELETE FROM messages" }
RawLimits == {1, 2}
RawRows == {r \in MessageRows : r.flags = <<>> /\ r.body_text = None /\ r.date_utc = isoformat(Utc(0))}

NextRaw ==
    \/ \E m \in ThreadIds : \E row \in RawRows : StoreMessage(m, row)
    \/ \E m \in ThreadIds : DeleteMessage(m)
    \/ MarkInboxSynced(default_account)
    \/ \E sql \in RawStatements, limit \in RawLimits : ExecuteRawQuery(sql, limit)

SpecRaw == Init /\ [][NextRaw]_vars


\* Two workers confirm a draft while step 1 of clerk_send can be called
\* again.
ConfirmOutcomes == {"ok", "smtp_error"}

NextConfirm ==
    \/ Tick(TokenTimes)
    \/ /\ next_draft < MaxSendDrafts
       /\ \E c \in CleanContents : CreateDraft(default_account, c)
    \/ /\ next_token < MaxTokens
       /\ \E d \in SendDraftIds : ClerkSend(d, FALSE, 0, TokenTimes)
    \/ \E w \in Workers, d \in SendDraftIds, token \in 0..MaxTokens :
          EnterClerkSend(w, d, token)
    \/ \E w \in Workers : ValidateLookup(w)
    \/ \E w \in Workers : ValidateRead(w)
    \/ \E w \in Workers : ValidateCompare(w)
    \/ \E w \in Workers : ValidateDelete(w)
    \/ \E w \in Workers : SendCheck(w)
    \/ /\ next_msgid < MaxDispatch
       /\ \E w \in Workers, outcome \in ConfirmOutcomes : SmtpDispatch(w, outcome)
    \/ \E w \in Workers : RecordSend(w)

SpecConfirm == Init /\ [][NextConfirm]_vars

\* Workers send different drafts of one account at the same time.
RaceDraftIds == 1..MaxRaceDrafts
RaceContent == [to |-> <<Bob>>, cc |-> <<>>, bcc |-> <<>>, subject |-> "hello"]

NextRace ==
    \/ Tick(RateTimes)
    \/ /\ next_draft < MaxRaceDrafts
       /\ CreateDraft(default_account, RaceContent)
    \/ \E w \in Workers, d \in RaceDraftIds :
          /\ \A v \in Workers : workers[v].draft_id # d
          /\ EnterSendDraft(w, d)
    \/ \E w \in Workers : SendCheck(w)
    \/ /\ next_msgid < MaxDispatch
       /\ \E w \in Workers, outcome \in ConfirmOutcomes : SmtpDispatch(w, outcome)
    \/ \E w \in Workers : RecordSend(w)

SpecRace == Init /\ [][NextRace]_vars


\* A previewed draft is edited between the two steps of clerk_send.
PreviewContents == {c \in DraftContents : c.cc = <<>> /\ c.bcc = <<>> /\ c.to # <<SpamUpper>>}

NextPreview ==
    \/ /\ next_draft < MaxSendDrafts
       /\ \E c \in PreviewContents : CreateDraft(default_account, c)
    \/ \E d \in SendDraftIds, c \in PreviewContents : UpdateDraft(d, default_account, c)
    \/ /\ next_msgid < MaxDispatch
       /\ \E d \in SendDraftIds, confirm \in BOOLEAN, tok \in 0..MaxTokens :
             /\ confirm \/ next_token < MaxTokens
             /\ ClerkSend(d, confirm, tok, {0})

SpecPreview == Init /\ [][NextPreview]_vars


\* Threading malformed mail: messages that answer themselves, each other or
\* a later message.
CycleHeaders ==
    { [references |-> <<>>, in_reply_to |-> None],
      [references |-> <<>>, in_reply_to |-> "m1"],
      [references |-> <<>>, in_reply_to |-> "m2"],
      [references |-> <<>>, in_reply_to |-> "m3"],
      [references |-> <<"m2", "m1">>, in_reply_to |-> "m1"] }
CycleRows(m) == { ThreadingRow(m, h, <<>>) : h \in CycleHeaders }

NextCycle ==
    \/ \E m \in ThreadIds : \E row \in CycleRows(m) : StoreMessage(m, row)
    \/ \E m \in ThreadIds : DeleteMessage(m)
    \/ \E order \in Orderings(DOMAIN messages) :
          ThreadMessages([i \in 1..Len(order) |-> stored_message(messages, order[i])])

SpecCycle == Init /\ [][NextCycle]_vars


\* Moves between INBOX and Archive on a connection that fails after any
\* number of commands.
MoveFolders == {INBOX, "Archive"}

NextMove ==
    \/ \E m \in MessageIds : ServerDeliver(m)
    \/ /\ Cardinality(server_folders) < MaxFolders
       /\ ServerCreateFolder("Archive")
    \/ \E m \in MessageIds, from \in MoveFolders, to \in MoveFolders,
          limit \in 0..Len(move_commands) : ImapMoveMessage(m, from, to, limit)

SpecMove == Init /\ [][NextMove]_vars

\* ------------------------------------------------------------------ claims
\* the calls that can end in SmtpClient.send
SendOps == {"send_draft", "api_send_draft", "cli_send", "clerk_send"}

\* some To, Cc or Bcc address of the draft equals a blocked recipient,
\* letter case ignored
Blocklisted(draft) ==
    \E i \in 1..Len(draft.to \o draft.cc \o draft.bcc), j \in 1..Len(blocked_recipients) :
        Lower((draft.to \o draft.cc \o draft.bcc)[i]) = Lower(blocked_recipients[j])

\* the successful sends the log holds for account a in the 3600 s up to t
SentWithin(log, a, t) ==
    Cardinality({i \in 1..Len(log) : log[i].account = a /\ t - log[i].timestamp <= 3600})

Validates(d, tok) == Count(validations', <<d, tok>>) > Count(validations, <<d, tok>>)

\* C2: a confirmation token is one-time.  A validation of token tok under
\* draft_id d succeeds only when a token is stored for d, it is tok, tok was
\* generated for d, and (d, tok) has never validated before; so a second
\* validation, one under another draft_id and one with nothing stored fail.
C2_OneTimeToken ==
    [][\A d \in DraftIds, tok \in 1..MaxTokens :
          Validates(d, tok) =>
              /\ d \in DOMAIN tokens
              /\ tokens[d].token = tok
              /\ tok \in DOMAIN issued_for /\ issued_for[tok] = d
              /\ Count(validations, <<d, tok>>) = 0]_vars

\* a validation was refused for a (draft_id, token) that had validated once
C2_Witness ==
    /\ last.op = "validate"
    /\ last.validation = "failed"
    /\ Count(validations, <<last.draft_id, last.token>>) = 1

\* a call of clerk_send(draft_id, confirm=true, token) is the step taken
ConfirmCall == last'.op = "clerk_send" /\ last'.step = 2 /\ last'.token # 0

\* C3: two-step send.  Step 1 on a draft that passes the gate returns
\* pending_confirmation with the stored token and expires_in 300 and sends
\* nothing; a confirm call that presents the live token is let through to
\* the send; no token authorises more than one SMTP dispatch, and every
\* confirm call that repeats an accepted token returns an error and sends
\* nothing.
C3_TwoStepSend ==
    [][/\ (last'.op = "clerk_send" /\ last'.status = "pending_confirmation") =>
            /\ last'.step = 1
            /\ last'.expires_in = 300
            /\ last'.draft_id \in DOMAIN tokens'
            /\ tokens'[last'.draft_id].token = last'.token
            /\ Count(token_sends, last'.token) = 0
            /\ UNCHANGED <<drafts, send_log, next_msgid, token_sends>>
       /\ (/\ ConfirmCall
           /\ last'.draft_id \in DOMAIN drafts
           /\ last'.draft_id \in DOMAIN tokens
           /\ tokens[last'.draft_id].token = last'.token
           /\ now < tokens[last'.draft_id].expiry) =>
            /\ last'.validation = "passed"
            /\ last'.status \in {"sent", "failed"}
       /\ \A tok \in 1..MaxTokens : Count(token_sends', tok) <= 1
       /\ (ConfirmCall /\ Count(validations, <<last'.draft_id, last'.token>>) >= 1) =>
            /\ last'.status = "error"
            /\ UNCHANGED <<drafts, send_log, next_msgid, token_sends>>]_vars

\* a confirm call repeated the token under which the draft had been sent
C3_Witness ==
    /\ last.op = "clerk_send" /\ last.step = 2 /\ last.token # 0
    /\ last.status = "error"
    /\ Count(token_sends, last.token) = 1
    /\ \E i \in 1..Len(send_log) : TRUE

\* C4: token expiry.  A token generated at time t is stored with expiry
\* t + 300, and every validation performed 300 s or more after t fails and
\* leaves no entry for the draft_id.
C4_TokenExpiry ==
    [][/\ (last'.op = "clerk_send" /\ last'.status = "pending_confirmation") =>
            tokens'[last'.draft_id].expiry = now + 300
       /\ \A d \in DraftIds :
            (/\ last'.validation # "none"
             /\ last'.draft_id = d
             /\ d \in DOMAIN tokens
             /\ now - (tokens[d].expiry - 300) >= 300) =>
                /\ last'.validation = "failed"
                /\ d \notin DOMAIN tokens']_vars

\* C5: per-account rate limit.  For every account, no 3600 s window that
\* starts at one of its successful sends holds more than max_per_hour of
\* them; and a send asked of an account that has max_per_hour successful
\* sends in the last hour fails with the rate reason, without SMTP dispatch.
C5_RateLimit ==
    [][/\ \A a \in Accounts, i \in 1..Len(send_log') :
            Cardinality({j \in 1..Len(send_log') :
                            /\ send_log'[j].account = a
                            /\ send_log'[j].timestamp >= send_log'[i].timestamp
                            /\ send_log'[j].timestamp - send_log'[i].timestamp <= 3600})
                <= MaxPerHour
       /\ (/\ last'.op \in SendOps
           /\ last'.account \in Accounts
           /\ SentWithin(send_log, last'.account, now) >= MaxPerHour) =>
              /\ last'.status = "failed"
              /\ last'.error = "rate"
              /\ ~last'.dispatched
              /\ UNCHANGED <<next_msgid, send_log, drafts>>]_vars

\* a send was refused for the rate after the window had slid once
C5_Witness ==
    /\ last.op = "send_draft" /\ last.error = "rate"
    /\ Len(send_log) > MaxPerHour
    /\ \A i \in 1..Len(send_log) : send_log[i].account = last.account

\* C6: blocklist.  check_send_allowed rejects every draft that has a blocked
\* recipient (letter case ignored) in To, Cc or Bcc, for every account; no
\* call on such a draft dispatches over SMTP; and step 1 of clerk_send on it
\* returns an error and leaves the token table as it was.
C6_Blocklist ==
    [][/\ \A d \in DOMAIN drafts, a \in Accounts :
            Blocklisted(drafts[d]) =>
                ~check_send_allowed(drafts[d], a, rate_limiters[a], now).ok
       /\ (last'.draft_id \in DOMAIN drafts /\ Blocklisted(drafts[last'.draft_id])) =>
            /\ ~last'.dispatched
            /\ UNCHANGED <<next_msgid, send_log, token_sends>>
            /\ (last'.op = "clerk_send" /\ last'.step = 1) =>
                  /\ last'.status = "error"
                  /\ next_token' = next_token
                  /\ tokens' = tokens]_vars

\* step 1 was refused for a blocked Cc recipient written in another case,
\* while a token issued earlier for the draft was pending
C6_Witness ==
    /\ last.op = "clerk_send" /\ last.step = 1
    /\ last.error = "blocklist"
    /\ last.draft_id \in DOMAIN drafts
    /\ last.draft_id \in DOMAIN tokens
    /\ drafts[last.draft_id].to = <<Bob>>
    /\ drafts[last.draft_id].cc # <<>>
    /\ drafts[last.draft_id].cc[1] \notin SeqToSet(blocked_recipients)

\* C7: a failed send changes nothing durable.  A send call that returns
\* success=False leaves the drafts and the send log as they were, adds no
\* timestamp to any rate limiter and leaves every account's count of sends
\* within the window (what remaining() reports) as it was.
C7_FailedSendChangesNothing ==
    [][(last'.op \in SendOps /\ last'.status = "failed") =>
          /\ drafts' = drafts
          /\ send_log' = send_log
          /\ \A a \in AccountNames :
                /\ SeqToSet(rate_limiters'[a]) \subseteq SeqToSet(rate_limiters[a])
                /\ remaining(rate_limiters'[a], now') = remaining(rate_limiters[a], now')]_vars

\* SMTP refused a send of an account that had sent before
C7_Witness ==
    /\ last.op \in SendOps /\ last.status = "failed"
    /\ last.dispatched /\ last.error = "auth_failed"
    /\ last.draft_id \in DOMAIN drafts
    /\ rate_limiters[last.account] # <<>>

\* C8: a successful send has exactly three effects.  The sending account's
\* rate limiter gains one timestamp (the others are untouched), the send log
\* gains one row, carrying the Message-ID of the outgoing message, and the
\* draft, and no other draft, is deleted.
C8_SuccessfulSendEffects ==
    [][(last'.op \in SendOps /\ last'.status = "sent") =>
          /\ last'.draft_id \in DOMAIN drafts
          /\ drafts' = Remove(drafts, last'.draft_id)
          /\ Len(send_log') = Len(send_log) + 1
          /\ SubSeq(send_log', 1, Len(send_log)) = send_log
          /\ next_msgid' = next_msgid + 1
          /\ send_log'[Len(send_log')].message_id = next_msgid'
          /\ last'.message_id = next_msgid'
          /\ send_log'[Len(send_log')].account = last'.account
          /\ \E k \in 0..Len(rate_limiters[last'.account]) :
                rate_limiters'[last'.account] =
                    Append(SubSeq(rate_limiters[last'.account], k + 1,
                                  Len(rate_limiters[last'.account])), now')
          /\ \A b \in AccountNames \ {last'.account} :
                rate_limiters'[b] = rate_limiters[b]]_vars

\* the cli sent a second message of an account
C8_Witness ==
    /\ last.op = "cli_send" /\ last.status = "sent"
    /\ Len(rate_limiters[last.account]) = 2
    /\ last.draft_id \notin DOMAIN drafts

\* C9: the send log is append-only.  Every step of the store operations,
\* the draft operations and the sends leaves the rows the log had, in place
\* and unmodified, and adds one row if it is a successful send and none if
\* it is anything else.
C9_SendLogAppendOnly ==
    [][/\ Len(send_log') >= Len(send_log)
       /\ SubSeq(send_log', 1, Len(send_log)) = send_log
       /\ Len(send_log') - Len(send_log) =
             IF last'.op \in SendOps /\ last'.status = "sent" THEN 1 ELSE 0]_vars

\* the store was cleared of messages and drafts while the log held two rows
C9_Witness ==
    /\ last.op = "clear"
    /\ Len(send_log) = MaxGateDispatch
    /\ messages = <<>> /\ drafts = <<>>

\* the facade's message actions
FacadeOps == {"mark_read", "mark_unread", "flag_message", "unflag_message",
              "move_message", "archive_message"}

\* the mailbox after the step shows the mutation the call asked the server for
ServerDone ==
    LET m == last'.msg
        from == <<last'.from_folder, m>>
    IN /\ from \in DOMAIN server
       /\ CASE last'.op = "mark_read" ->
                 from \in DOMAIN server' /\ SEEN \in server'[from]
            [] last'.op = "mark_unread" ->
                 from \in DOMAIN server' /\ SEEN \notin server'[from]
            [] last'.op = "flag_message" ->
                 from \in DOMAIN server' /\ FLAGGED \in server'[from]
            [] last'.op = "unflag_message" ->
                 from \in DOMAIN server' /\ FLAGGED \notin server'[from]
            [] last'.op = "move_message" ->
                 /\ <<last'.to_folder, m>> \in DOMAIN server'
                 /\ last'.to_folder # last'.from_folder => from \notin DOMAIN server'
            [] last'.op = "archive_message" ->
                 /\ from \notin DOMAIN server'
                 /\ \E i \in 1..Len(ArchiveNames) : <<ArchiveNames[i], m>> \in DOMAIN server'
            [] OTHER -> FALSE

\* C10: server first, then mirror.  A facade message action that does not
\* return normally (unknown account, failed connection, failed or half-done
\* server command) leaves every store row as it was; a store row changes
\* only in a call whose server-side mutation is done; and within a call no
\* store write comes before the server mutation.
C10_ServerFirst ==
    [][last'.op \in FacadeOps =>
          /\ last'.status # "ok" => messages' = messages
          /\ messages' # messages => last'.status = "ok" /\ ServerDone
          /\ \A i \in 1..Len(last'.effects) :
                last'.effects[i] = "store" =>
                    \E j \in 1..(i - 1) : last'.effects[j] = "server"]_vars

\* a move of a cached message raised after the copy: the server holds both
\* copies, the store row still names the old folder
C10_Witness ==
    /\ last.op = "move_message" /\ last.status = "raised"
    /\ last.msg \in DOMAIN messages
    /\ messages[last.msg].folder = last.from_folder
    /\ <<last.to_folder, last.msg>> \in DOMAIN server
    /\ <<last.from_folder, last.msg>> \in DOMAIN server
    /\ last.to_folder # last.from_folder
    /\ "m2" \in DOMAIN messages

\* a successful mark_read of a cached message, directly followed by a
\* get_message of the same message
ReadAfterMarkRead ==
    /\ last.op = "mark_read" /\ last.status = "ok"
    /\ last.msg \in DOMAIN messages
    /\ last'.op = "get_message" /\ last'.msg = last.msg

\* a successful mark_read of a cached message leaves its stored flags with
\* seen, and otherwise as they were
MarkReadMirrored ==
    (last'.op = "mark_read" /\ last'.status = "ok" /\ last'.msg \in DOMAIN messages)
    => /\ last'.msg \in DOMAIN messages'
       /\ SeqToSet(messages'[last'.msg].flags)
            = SeqToSet(messages[last'.msg].flags) \cup {SEEN}

\* C11: after a successful mark_read of a cached message the stored flags
\* contain seen and keep every other flag; a get_message of it that follows
\* and returns, returns the message with seen set, and where the body text
\* of the message is in the store it returns it with no network round trip.
C11_MirrorAfterMarkRead ==
    [][ /\ MarkReadMirrored
        /\ ReadAfterMarkRead =>
             /\ last'.status = "ok" =>
                  /\ last'.result # Nothing
                  /\ SEEN \in SeqToSet(last'.result[1].flags)
             /\ messages[last.msg].body_text # None =>
                  (last'.status = "ok" /\ last'.effects = <<>>) ]_vars

\* a get_message without a round trip returned a message that is seen and
\* flagged in the store and seen on the server
C11_Witness ==
    /\ last.op = "get_message" /\ last.status = "ok" /\ last.effects = <<>>
    /\ last.result # Nothing
    /\ last.result[1].flags = <<FLAGGED, SEEN>>
    /\ <<INBOX, last.msg>> \in DOMAIN server
    /\ SEEN \in server[<<INBOX, last.msg>>]

\* C11 as stated: the get_message that follows returns the message with seen
\* set without any network round trip, whatever the store holds of its body
C11_NoRoundTrip ==
    [][ /\ MarkReadMirrored
        /\ ReadAfterMarkRead =>
             /\ last'.status = "ok" /\ last'.effects = <<>>
             /\ last'.result # Nothing
             /\ SEEN \in SeqToSet(last'.result[1].flags) ]_vars

\* the account's inbox was marked synced less than inbox_freshness_min ago
InboxFresh(account) ==
    /\ InboxSyncKey(account) \in DOMAIN cache_meta
    /\ now - cache_meta[InboxSyncKey(account)] < inbox_freshness_min * MinuteSeconds

\* the date of a stored row is earlier than the cache window at time t
Older(row, t) == Instant(fromisoformat(row.date_utc)) < t - window_days * DaySeconds

\* the list is a listing of the store ms for the account's INBOX: one summary
\* for each conversation, with its number of messages
ListingOf(l, ms, account) ==
    /\ {l[i].conv_id : i \in 1..Len(l)} \subseteq
         {ms[m].conv_id : m \in {x \in DOMAIN ms : ms[x].account = account}}
    /\ \A i \in 1..Len(l) :
         l[i].message_count =
           Cardinality({m \in DOMAIN ms : /\ ms[m].conv_id = l[i].conv_id
                                           /\ ms[m].account = account
                                           /\ ms[m].folder = INBOX})

\* C12: list_inbox goes to the server exactly when fresh is set or the
\* account's inbox is not fresh; served from the store it returns the listing
\* with from_cache set and neither uses the network nor writes the store;
\* otherwise, when it returns, the fetched headers are stored, the account
\* is marked synced now, no row older than the window is left, and the
\* listing of the store is returned with from_cache unset.
C12_CacheFirstInbox ==
    [][ (last'.op = "list_inbox" /\ last'.error # "unknown_account") =>
          LET name == last'.account
              miss == last'.fresh \/ ~InboxFresh(name)
          IN /\ (last'.effects # <<>>) <=> miss
             /\ ~miss =>
                   /\ last'.status = "ok" /\ last'.from_cache
                   /\ UNCHANGED <<messages, cache_meta, drafts, send_log>>
                   /\ ListingOf(last'.result[1], messages, name)
             /\ (miss /\ last'.status = "ok") =>
                   /\ ~last'.from_cache
                   /\ \A k \in DOMAIN server :
                         (k[1] = INBOX /\ ~Older([date_utc |-> isoformat(Envelope(k[2]).date)], now))
                           => /\ k[2] \in DOMAIN messages'
                              /\ messages'[k[2]].account = name
                              /\ messages'[k[2]].body_text = None
                   /\ cache_meta'[InboxSyncKey(name)] = now
                   /\ \A m \in DOMAIN messages' : ~Older(messages'[m], now)
                   /\ ListingOf(last'.result[1], messages', name) ]_vars

\* a listing was served from the store while the server holds a message the
\* store has not got
C12_Witness ==
    /\ last.op = "list_inbox" /\ last.status = "ok" /\ last.from_cache
    /\ last.count >= 1
    /\ \E k \in DOMAIN server : k[2] \notin DOMAIN messages

\* the facade calls that talk to the IMAP server
ImapOps == FacadeOps \cup {"get_message", "get_conversation", "list_inbox"}

\* C13: whenever a facade operation that talks to the server returns or
\* raises, failed authentication and failed work included, the connection it
\* opened is closed: as many connections are open after it as before.
C13_ConnectionScoped ==
    [][ last'.op \in ImapOps => sessions' = sessions ]_vars

\* the store holds neither a text nor an HTML body of message m
BodyMissing(m) == messages[m].body_text = None /\ messages[m].body_html = None

\* the body of message m was fetched body_freshness_min or longer ago
BodyStale(m) ==
    /\ messages[m].body_fetched_at # Nothing
    /\ now - messages[m].body_fetched_at[1] >= body_freshness_min * MinuteSeconds

\* C14: a get_conversation (fresh not asked for) that returns has fetched
\* from the server and written to the store the body of every message of the
\* conversation whose body was missing or whose body_fetched_at was older
\* than body_freshness_min, and of no message whose body was present and
\* fresh.
C14_LazyBodyFetch ==
    [][ (last'.op = "get_conversation" /\ last'.status = "ok" /\ ~last'.fresh
           /\ last'.result # Nothing) =>
          \A m \in {x \in DOMAIN messages : messages[x].conv_id = last'.result[1]} :
             /\ (BodyMissing(m) \/ BodyStale(m)) =>
                   /\ m \in last'.fetched
                   /\ messages'[m].body_fetched_at = Some(now)
             /\ (~BodyMissing(m) /\ ~BodyStale(m)) => m \notin last'.fetched ]_vars

\* C15: every stored message whose body_fetched_at is set has its body_text
\* or its body_html set.
C15_BodyInvariant ==
    \A m \in DOMAIN messages :
        messages[m].body_fetched_at # Nothing =>
            (messages[m].body_text # None \/ messages[m].body_html # None)

\* a store_message of a whole Message, directly followed by a get_message
\* of its message_id
GetAfterStore ==
    /\ last.op = "store_message" /\ last.result # Nothing
    /\ last'.op = "cache_get_message" /\ last'.msg = last.msg

\* the record r equals the message msg stored at time t, but for a
\* headers_fetched_at that msg left unset and r holds as t
EqualButStamp(r, msg, t) ==
    r = [msg EXCEPT !.headers_fetched_at =
                        IF msg.headers_fetched_at = Nothing THEN Some(Utc(t)) ELSE @]

EarlierThan(row, w, t) == Instant(fromisoformat(row.date_utc)) < t - w * DaySeconds

\* C17: prune_old_messages(w) deletes exactly the stored messages whose date
\* is earlier than now - w days, returns their number, and leaves the other
\* messages, the drafts, cache_meta and the send_log as they were.
C17_PruneExact ==
    [][ last'.op = "prune_old_messages" =>
          LET old == {m \in DOMAIN messages :
                        EarlierThan(messages[m], last'.window_days, now)}
          IN /\ DOMAIN messages' = DOMAIN messages \ old
             /\ \A m \in DOMAIN messages' : messages'[m] = messages[m]
             /\ last'.count = Cardinality(old)
             /\ UNCHANGED <<drafts, cache_meta, send_log>> ]_vars

\* C18: clear() leaves the messages, the drafts and cache_meta empty and the
\* send_log as it was; asked right after it, no message is retrieved and no
\* account's inbox is fresh.
C18_ClearEmpties ==
    [][ /\ last'.op = "clear" =>
             /\ messages' = <<>> /\ drafts' = <<>> /\ cache_meta' = <<>>
             /\ send_log' = send_log
        /\ (last.op = "clear" /\ last'.op = "cache_get_message") =>
             last'.result = Nothing
        /\ (last.op = "clear" /\ last'.op = "is_inbox_fresh") =>
             ~last'.from_cache ]_vars

\* the store was cleared after a draft was made and a send was logged
C18_Witness ==
    /\ last.op = "clear"
    /\ messages = <<>> /\ drafts = <<>> /\ cache_meta = <<>>
    /\ next_draft > 0 /\ send_log # <<>>

\* list_inbox() returned, called on an empty store while the server's INBOX
\* held m1, m2 and m3
FreshInboxListed ==
    /\ last'.op = "list_inbox" /\ last'.status = "ok"
    /\ messages = <<>> /\ cache_meta = <<>>
    /\ {k[2] : k \in {x \in DOMAIN server : x[1] = INBOX}} = ThreadIds

\* the list holds the conversation of m3 and then that of m1, the second
\* with two messages
TwoConversations(l) ==
    /\ Len(l) = 2
    /\ l[1].conv_id = sha12("m3")
    /\ l[2].conv_id = sha12("m1")
    /\ l[2].message_count = 2

StartsWith(p, c) == Len(p) <= Len(c) /\ SubSeq(c, 1, Len(p)) = p

\* the stored conv_ids that start with p
StoredStarting(p) ==
    {c \in {messages[m].conv_id : m \in DOMAIN messages} : StartsWith(p, c)}

\* C20: Cache.get_conversation(p) returns the conversation whose conv_id is
\* p if there is one, else the only conversation whose conv_id starts with
\* p, and nothing if none or several start with p;
\* find_conversations_by_prefix(p) lists the conversations whose conv_id
\* starts with p, each once, the latest first.
C20_PrefixLookup ==
    [][ /\ last'.op = "cache_get_conversation" =>
             last'.result =
               IF last'.prefix \in StoredStarting(last'.prefix)
                 THEN Some(last'.prefix)
               ELSE IF Cardinality(StoredStarting(last'.prefix)) = 1
                 THEN Some(CHOOSE c \in StoredStarting(last'.prefix) : TRUE)
               ELSE Nothing
        /\ last'.op = "find_conversations_by_prefix" =>
             LET l == last'.result[1]
             IN /\ {l[i].conv_id : i \in 1..Len(l)} = StoredStarting(last'.prefix)
                /\ Len(l) = Cardinality(StoredStarting(last'.prefix))
                /\ \A i, j \in 1..Len(l) :
                      i < j => Instant(l[i].latest_date) >= Instant(l[j].latest_date) ]_vars

\* the result of a resolve_conversation_id call that returned
Resolved == last'.op = "resolve_conversation_id" /\ last'.result # Nothing

\* C21: resolve_conversation_id returns a result with exactly one of
\* conversation, matches and error set: the conversation when the input is a
\* stored conv_id or starts exactly one stored conv_id, the matches (two or
\* more summaries, the latest first) when it starts several, the error when
\* it starts none.
C21_ResolveTrichotomy ==
    [][ Resolved =>
          LET res == last'.result[1]
              p == last'.prefix
              starting == StoredStarting(p)
              exact == p \in starting
          IN /\ Cardinality({k \in {"conversation", "matches", "error"} :
                               \/ k = "conversation" /\ res.conversation # Nothing
                               \/ k = "matches" /\ res.matches # Nothing
                               \/ k = "error" /\ res.error # None}) = 1
             /\ exact => res.conversation = Some(p)
             /\ (~exact /\ Cardinality(starting) = 1) =>
                   res.conversation = Some(CHOOSE c \in starting : TRUE)
             /\ (~exact /\ Cardinality(starting) >= 2) =>
                   /\ res.matches # Nothing
                   /\ Len(res.matches[1]) >= 2
                   /\ \A i, j \in 1..Len(res.matches[1]) :
                         i < j => Instant(res.matches[1][i].latest_date)
                                    >= Instant(res.matches[1][j].latest_date)
             /\ starting = {} => res.error # None ]_vars

\* the messages of the set S stored without the seen flag
Unread(S) == Cardinality({m \in S : SEEN \notin SeqToSet(messages[m].flags)})

\* the stored messages of the conversation c
StoredOf(c) == {m \in DOMAIN messages : messages[m].conv_id = c}

\* every summary of the list l counts the unread rows of its conversation
\* among the rows S
SummariesCount(l, S) ==
    \A i \in 1..Len(l) : l[i].unread_count = Unread(S \cap StoredOf(l[i].conv_id))

\* C22: the unread_count of every conversation or summary that
\* get_conversation, find_conversations_by_prefix, list_conversations (over
\* the rows of its filter) and thread_messages produce is the number of its
\* messages whose flags do not hold seen, whatever store_message and
\* update_flags calls came before.
C22_UnreadCount ==
    [][ /\ (last'.op = "cache_get_conversation" /\ last'.conversation # Nothing) =>
             LET conv == last'.conversation[1]
             IN /\ SeqToSet(conv.messages) = StoredOf(conv.conv_id)
                /\ conv.unread_count = Unread(SeqToSet(conv.messages))
        /\ last'.op = "find_conversations_by_prefix" =>
             SummariesCount(last'.result[1], DOMAIN messages)
        /\ last'.op = "list_conversations" =>
             SummariesCount(last'.result[1],
                            listed_rows(messages, last'.account, last'.from_folder))
        /\ last'.op = "thread_messages" =>
             \A i \in 1..Len(last'.result[1].conversations) :
                LET conv == last'.result[1].conversations[i]
                IN conv.unread_count = Unread(SeqToSet(conv.messages)) ]_vars

\* a lookup or a listing has produced a conversation of several messages,
\* some read and some not, after an update_flags
C22_Mixed(c) == c.message_count >= 2 /\ c.unread_count >= 1 /\ c.unread_count < c.message_count
C22_Witness ==
    /\ \E m \in DOMAIN messages : messages[m].flags = <<FLAGGED, SEEN>>
    /\ \/ last.op = "cache_get_conversation" /\ last.conversation # Nothing
            /\ C22_Mixed(last.conversation[1])
       \/ last.op \in {"find_conversations_by_prefix", "list_conversations"}
            /\ \E i \in 1..Len(last.result[1]) : C22_Mixed(last.result[1][i])

\* the message ids the stored message m belongs with: itself and the ones
\* its In-Reply-To and References headers name
ThreadRefs(m) ==
    {m} \cup SeqToSet(messages[m].references_json)
        \cup (IF messages[m].in_reply_to = None THEN {} ELSE {messages[m].in_reply_to})

\* two stored messages are of one thread: one names the other, or both name
\* the same message
SameThread(m, n) == ThreadRefs(m) \cap ThreadRefs(n) # {}

\* C23: the conv_id a message gets at ingest is the digest of its root id
\* (the first of its references, else its in_reply_to, else its own id), and
\* so the messages of one thread all carry one conv_id.
C23_ConvIdDeterminism ==
    /\ \A m \in DOMAIN messages :
          messages[m].conv_id =
            sha12(IF messages[m].references_json # <<>> THEN messages[m].references_json[1]
                  ELSE IF messages[m].in_reply_to # None THEN messages[m].in_reply_to
                  ELSE m)
    /\ \A m, n \in DOMAIN messages :
          SameThread(m, n) => messages[m].conv_id = messages[n].conv_id

\* C24: the conv_id thread_messages gives a conversation (the digest of the
\* message id of its root node, dummy roots with one child promoted) is the
\* conv_id each message placed in that conversation got at ingest.
C24_DerivationsAgree ==
    [][ last'.op = "thread_messages" =>
          \A i \in 1..Len(last'.result[1].conversations) :
             LET conv == last'.result[1].conversations[i]
             IN \A k \in 1..Len(conv.messages) :
                   conv.conv_id = messages[conv.messages[k]].conv_id ]_vars

\* the date-last stored message of the conversation the text p names
LatestOf(p) ==
    LET c == cache_get_conversation(messages, p)[1]
    IN CHOOSE m \in StoredOf(c) :
          \A n \in StoredOf(c) :
              Instant(fromisoformat(messages[m].date_utc))
                >= Instant(fromisoformat(messages[n].date_utc))

\* a create_reply call for a configured account leaves what the claim says
\* but for the subject: no draft where there is no conversation, else a new
\* persisted draft answering the latest message
ReplyHeaders ==
    IF cache_get_conversation(messages, last'.prefix) = Nothing
      THEN last'.status = "raised" /\ drafts' = drafts
      ELSE LET latest == LatestOf(last'.prefix)
               R == messages[latest].references_json
           IN /\ last'.status = "ok"
              /\ last'.draft_id \notin DOMAIN drafts
              /\ DOMAIN drafts' = DOMAIN drafts \cup {last'.draft_id}
              /\ drafts'[last'.draft_id].in_reply_to = latest
              /\ drafts'[last'.draft_id].references =
                    (IF latest \in SeqToSet(R) THEN R ELSE R \o <<latest>>)
              /\ drafts'[last'.draft_id].to = <<messages[latest].from_addr>>
              /\ drafts'[last'.draft_id].reply_to_conv_id = last'.prefix

\* the subject of the draft and of the message it answers
ReplySubject == drafts'[last'.draft_id].subject
LatestSubject == messages[LatestOf(last'.prefix)].subject

\* C25 (as amended): create_reply on a conversation whose latest (date-last)
\* message has message_id M and references R persists a new draft with
\* in_reply_to = M, references = R followed by M (M appended only if not
\* already in R), to = [latest.from], reply_to_conv_id set, and the subject
\* of the latest message if that starts with "re:" in any letter case, else
\* "Re: " + subject; it fails without creating a draft if the conversation
\* does not exist.
C25_ReplyConstruction ==
    [][ (last'.op = "create_reply" /\ last'.account \in Accounts) =>
          /\ ReplyHeaders
          /\ last'.status = "ok" =>
                ReplySubject =
                  IF /\ Len(LatestSubject) >= 3
                     /\ LatestSubject[1] \in {"R", "r"}
                     /\ LatestSubject[2] \in {"E", "e"}
                     /\ LatestSubject[3] = ":"
                    THEN LatestSubject
                    ELSE <<"R", "e", ":", " ">> \o LatestSubject ]_vars

\* a reply to a two-message conversation whose latest message is headed
\* "RE: T" and refers to the first: the draft answers the latest, refers to
\* both and keeps the subject
C25_Witness ==
    /\ last.op = "create_reply" /\ last.status = "ok" /\ last.msg = "m2"
    /\ last.draft_id \in DOMAIN drafts
    /\ drafts[last.draft_id].in_reply_to = "m2"
    /\ drafts[last.draft_id].references = <<"m1", "m2">>
    /\ drafts[last.draft_id].subject = <<"R", "E", ":", " ">> \o Topic
    /\ drafts[last.draft_id].to = <<Bob>>

\* C25 as stated: the subject is kept only if it starts with "Re:" as
\* written, and is "Re: " + subject otherwise.
C25_ExactRe ==
    [][ (last'.op = "create_reply" /\ last'.account \in Accounts) =>
          /\ ReplyHeaders
          /\ last'.status = "ok" =>
                ReplySubject =
                  IF Len(LatestSubject) >= 3 /\ SubSeq(LatestSubject, 1, 3) = <<"R", "e", ":">>
                    THEN LatestSubject
                    ELSE <<"R", "e", ":", " ">> \o LatestSubject ]_vars


\* the text begins with SELECT once the blanks around it are dropped,
\* letter case ignored
BeginsWithSelect(sql) ==
    \E i \in 1..Len(sql) :
        /\ \A j \in 1..(i - 1) : SubSeq(sql, j, j) = " "
        /\ i + 5 <= Len(sql)
        /\ upper(SubSeq(sql, i, i + 5)) = "SELECT"

\* the text holds one of the seven write keywords, letter case ignored
HoldsWriteKeyword(sql) ==
    \E w \in {"INSERT", "UPDATE", "DELETE", "DROP", "ALTER", "CREATE", "TRUNCATE"} :
        contains(upper(sql), w)

\* C26: raw query safety.  execute_raw_query raises on every text that is
\* not a single read: one that does not begin with SELECT, one that holds
\* INSERT, UPDATE, DELETE, DROP, ALTER, CREATE or TRUNCATE, and one of
\* several statements; and no call of it, accepted or refused, changes a
\* stored message, a draft, a cache_meta entry or the send log.
C26_RawQuerySafety ==
    [][last'.op = "execute_raw_query" =>
          /\ (\/ ~BeginsWithSelect(last'.prefix)
              \/ HoldsWriteKeyword(last'.prefix)
              \/ Len(statements(last'.prefix)) # 1) => last'.status = "raised"
          /\ (~BeginsWithSelect(last'.prefix) \/ HoldsWriteKeyword(last'.prefix)) =>
                last'.error = ValueError
          /\ UNCHANGED <<messages, drafts, cache_meta, send_log>>]_vars

\* a REPLACE into cache_meta was refused and a read was possible: the store
\* holds messages and cache_meta an entry
C26_Witness ==
    /\ last.op = "execute_raw_query"
    /\ last.prefix = "REPLACE INTO cache_meta VALUES ('limit', '0')"
    /\ last.status = "raised"
    /\ DOMAIN messages # {}
    /\ DOMAIN cache_meta # {}

\* C27: the limit of execute_raw_query is enforced: every accepted
\* statement, with or without a LIMIT clause of its own, returns at most
\* `limit` messages.
C27_LimitEnforced ==
    [][(last'.op = "execute_raw_query" /\ last'.status = "ok") =>
          last'.count <= last'.expires_in]_vars


\* C28: archive_message moves the message on the server to the first folder
\* that exists among Archive, [Gmail]/All Mail, All Mail, Archives and
\* mirrors the move into the store: after success the cached message's
\* folder is the server folder that now holds the message; where none of
\* the four exists the call fails and neither server nor store changes.
C28_ArchiveMirror ==
    [][last'.op = "archive_message" =>
          /\ last'.status = "ok" =>
                \E i \in 1..Len(ArchiveNames) :
                    /\ ArchiveNames[i] \in server_folders
                    /\ \A j \in 1..(i - 1) : ArchiveNames[j] \notin server_folders
                    /\ <<ArchiveNames[i], last'.msg>> \in DOMAIN server'
                    /\ <<INBOX, last'.msg>> \notin DOMAIN server'
                    /\ last'.msg \in DOMAIN messages' =>
                          messages'[last'.msg].folder = ArchiveNames[i]
          /\ (\A i \in 1..Len(ArchiveNames) : ArchiveNames[i] \notin server_folders) =>
                /\ last'.status = "raised"
                /\ UNCHANGED <<server, server_folders, messages>>]_vars


\* C29: racing confirmations.  When two clerk_send(confirm=true) calls with
\* the same valid token for the same draft run in parallel workers, with
\* the lookup, the compare and the delete of the validation and the send as
\* separate steps, at most one of them passes validation and the draft is
\* dispatched over SMTP at most once: no (draft_id, token) validates twice
\* and no token has two dispatches.
C29_RacingConfirmations ==
    \A d \in SendDraftIds, tok \in 1..MaxTokens :
        /\ Count(validations, <<d, tok>>) <= 1
        /\ Count(token_sends, tok) <= 1

\* C30: racing sends.  When several send_draft calls for one account run in
\* parallel, the rate check and record_send being separate steps around the
\* SMTP dispatch, no 3600 s window starting at a successful send of the
\* account holds more than max_per_hour of its successful sends.
C30_RacingSends ==
    \A a \in Accounts, i \in 1..Len(send_log) :
        send_log[i].account = a =>
            Cardinality({j \in 1..Len(send_log) :
                            /\ send_log[j].account = a
                            /\ send_log[i].timestamp <= send_log[j].timestamp
                            /\ send_log[j].timestamp <= send_log[i].timestamp + HourSeconds})
                <= MaxPerHour


\* C31: a confirmation token authorises only the draft as previewed.  The
\* message a confirmed send (step 2) dispatches has the recipients and the
\* subject of the preview that step 1 returned with the token, also when
\* update_draft changed the draft between the two steps.
C31_SendsWhatWasPreviewed ==
    [][(last'.op = "clerk_send" /\ last'.step = 2 /\ last'.status = "sent") =>
          LET sent == send_log'[Len(send_log')]
              preview == previews[last'.token]
          IN /\ sent.to = preview.to
             /\ sent.cc = preview.cc
             /\ sent.bcc = preview.bcc
             /\ sent.subject = preview.subject]_vars


\* the places (conversation, position) at which the conversations convs
\* list the message m
ListedAt(convs, m) ==
    {p \in (1..Len(convs)) \X (1..3) :
        p[2] <= Len(convs[p[1]].messages) /\ convs[p[1]].messages[p[2]] = m}

\* C32: threading is a partition that tolerates malformed reference graphs.
\* For every list of messages with distinct message_ids, self-references
\* and reference cycles included, every input message appears in exactly one
\* returned conversation, and message_count is the number of messages the
\* conversation lists.
C32_ThreadingPartition ==
    [][last'.op = "thread_messages" =>
          LET r == last'.result[1]
          IN /\ \A i \in 1..Len(r.messages) :
                   Cardinality(ListedAt(r.conversations, r.messages[i].message_id)) = 1
             /\ \A c \in 1..Len(r.conversations) :
                   r.conversations[c].message_count = Len(r.conversations[c].messages)]_vars


\* s is the beginning of t
IsPrefix(s, t) == Len(s) <= Len(t) /\ \A i \in 1..Len(s) : s[i] = t[i]

\* C33: IMAP move never loses the message.  ImapClient.move_message sends
\* COPY, then \Deleted on the source copy, then EXPUNGE, each only after
\* the one before succeeded; wherever it stops, a message that was in the
\* source folder is in the source or the destination folder afterwards, a
\* failure leaves the source copy (at worst a duplicate), and a completed
\* move to another folder leaves the message in the destination only.
C33_MoveKeepsMessage ==
    [][(/\ last'.op = "imap_move_message"
        /\ <<last'.from_folder, last'.msg>> \in DOMAIN server) =>
          /\ IsPrefix(last'.effects, <<"copy", "add_flags", "expunge">>)
          /\ \/ <<last'.from_folder, last'.msg>> \in DOMAIN server'
             \/ <<last'.to_folder, last'.msg>> \in DOMAIN server'
          /\ last'.status = "raised" => <<last'.from_folder, last'.msg>> \in DOMAIN server'
          /\ (last'.status = "ok" /\ last'.to_folder # last'.from_folder) =>
                /\ <<last'.to_folder, last'.msg>> \in DOMAIN server'
                /\ <<last'.from_folder, last'.msg>> \notin DOMAIN server'
                /\ last'.effects = <<"copy", "add_flags", "expunge">>]_vars

\* a move stopped after the copy and the flag: the message is in both
\* folders, the source copy marked \Deleted
C33_Witness ==
    /\ last.op = "imap_move_message"
    /\ last.status = "raised"
    /\ last.effects = <<"copy", "add_flags">>
    /\ <<last.from_folder, last.msg>> \in DOMAIN server
    /\ <<last.to_folder, last.msg>> \in DOMAIN server
    /\ DELETED \in server[<<last.from_folder, last.msg>>]

\* ------------------------------------------------- a sync that fails
\* The two syncs, list_inbox and refresh_cache, over connections and fetches
\* that fail, for two folders of one server.
SyncAccounts == {None, "ghost"}
SyncFolders == {INBOX, "Archive"}

NextSync ==
    \/ Tick(TokenTimes)
    \/ Reclaim
    \/ ServerDeliver("m1")
    \/ \E flags \in {{}, {FLAGGED}} : ServerStoreFlags("m1", flags)
    \/ ServerCreateFolder("Archive")
    \/ \E a \in SyncAccounts, f \in SyncFolders, unread_only \in BOOLEAN,
          fresh \in BOOLEAN, net \in ReadNet \cup {"connect_failed"} :
          /\ ListInbox(a, f, default_limit, unread_only, fresh, net)
          /\ sessions' <= MaxSessions
    \/ \E a \in SyncAccounts, f \in SyncFolders,
          net \in ReadNet \cup {"connect_failed"}, parts \in {{}, {"text/plain", "attachment"}} :
          /\ RefreshCache(a, f, net, parts)
          /\ sessions' <= MaxSessions

SpecSync == Init /\ [][NextSync]_vars

\* C34: a list_inbox or a refresh_cache that raises (the account unknown, the
\* connection refused, the login refused, the folder missing, a command of the
\* fetch failing) leaves the stored messages and the cache_meta rows as they
\* were: nothing of the batch is stored and the account is not marked synced.
\* An account whose inbox was not fresh before the failed call is not fresh
\* after it, so its next list_inbox goes to the server.
C34_FailedSyncWritesNothing ==
    [][(last'.op \in {"list_inbox", "refresh_cache"} /\ last'.status = "raised")
         => /\ messages' = messages
            /\ cache_meta' = cache_meta
            /\ \A a \in AccountNames :
                  ~served_from_cache(cache_meta, a, FALSE, now)
                     => ~served_from_cache(cache_meta', a, FALSE, now')]_vars

\* a refresh_cache whose fetch failed after the connection was made, with a
\* message on the server that the store does not hold and the account never
\* synced
C34_Witness ==
    /\ last.op = "refresh_cache"
    /\ last.status = "raised"
    /\ last.effects = <<"connect", "server_failed">>
    /\ \E k \in DOMAIN server : k[2] \notin DOMAIN messages
    /\ InboxSyncKey(last.account) \notin DOMAIN cache_meta

\* ------------------------------------- the summary and the conversation
\* A thread of two messages, sent by Bob or Carol to nobody or to the other,
\* fetched by either account, read or unread.
SummaryRows(m) ==
    { ThreadingRow(m, [references |-> <<>>, in_reply_to |-> None], flags)
        @@ [from_addr |-> from, to_json |-> to, cc_json |-> cc]
      : flags \in {<<>>, <<SEEN>>}, from \in {Bob},
        to \in {<<>>, <<Carol>>}, cc \in {<<>>, <<Carol>>} }
SummaryRowsOf(m, a) ==
    { [r EXCEPT !.account = a, !.conv_id = sha12("m1")] : r \in SummaryRows(m) }

NextSummary ==
    \/ \E m \in {"m1", "m2"}, a \in Accounts : \E row \in SummaryRowsOf(m, a) :
          StoreMessage(m, row)
    \/ \E m \in {"m1", "m2"} : DeleteMessage(m)
    \/ FindSummary(sha12("m1"))
    \/ GetStoredConversation(sha12("m1"))

SpecSummary == Init /\ [][NextSummary]_vars

\* C35: for every stored conv_id, the summary find_conversations_by_prefix
\* returns for it has the message_count, unread_count, latest_date, account
\* and participants of the Conversation get_conversation returns for it.
C35_SummaryAgrees ==
    \A c \in {messages[m].conv_id : m \in DOMAIN messages} :
      \A order \in conversation_messages(messages, c) :
        LET s == conversation_summary(messages, c)
            v == materialized_conversation(messages, order)
        IN /\ s.message_count = v.message_count
           /\ s.unread_count = v.unread_count
           /\ s.latest_date = v.latest_date
           /\ s.account = v.account
           /\ s.participants = v.participants

\* C36: the rate limit is a sliding window, not a lockout.  When an account
\* has max_per_hour counted sends and more than 3600 s have passed since the
\* oldest of them, RateLimiter.can_send drops that send and answers yes, and
\* a send asked of the account then is not refused for the rate.
C36_SlidingWindow ==
    [][\A a \in Accounts :
         (/\ Len(rate_limiters[a]) = MaxPerHour
          /\ now - rate_limiters[a][1] > HourSeconds) =>
            /\ can_send(rate_limiters[a], now).ok
            /\ Len(can_send(rate_limiters[a], now).timestamps) < MaxPerHour
            /\ (last'.op \in SendOps /\ last'.account = a) => last'.error # "rate"]_vars

\* a send passed the gate and was dispatched when the max_per_hour earlier
\* sends of the account were all more than an hour old
C36_Witness ==
    /\ last.op = "send_draft" /\ last.status = "sent"
    /\ Len(send_log) = MaxPerHour + 1
    /\ \A i \in 1..Len(send_log) : send_log[i].account = last.account
    /\ \A i \in 1..MaxPerHour : now - send_log[i].timestamp > HourSeconds

NextFresh ==
    \/ Tick(TokenTimes)
    \/ ServerDeliver("m1")
    \/ ServerCreateFolder("Archive")
    \/ \E a \in Accounts, f \in SyncFolders, unread_only \in BOOLEAN, fresh \in BOOLEAN :
          /\ ListInbox(a, f, default_limit, unread_only, fresh, "ok")
          /\ sessions' <= MaxSessions
    \/ \E a \in Accounts, f \in SyncFolders, net \in {"ok", "command_failed"} :
          /\ RefreshCache(a, f, net, {})
          /\ sessions' <= MaxSessions

SpecFresh == Init /\ [][NextFresh]_vars

\* C38: inbox freshness is kept per account and nothing else.  A list_inbox
\* that went to the server and a refresh_cache, once completed for an
\* account, whatever the folder and the unread_only filter, leave the
\* account's inbox_sync row at the time of the call; and while that row is
\* less than inbox_freshness_min old, every list_inbox of the account with
\* fresh=false, whatever its folder and filter, is answered from the store:
\* no connection is opened and the server and the store are left alone.
C38_FreshnessPerAccount ==
    [][/\ (/\ last'.op \in {"list_inbox", "refresh_cache"}
           /\ last'.status = "ok" /\ ~last'.from_cache) =>
              /\ InboxSyncKey(last'.account) \in DOMAIN cache_meta'
              /\ cache_meta'[InboxSyncKey(last'.account)] = now'
       /\ \A a \in Accounts :
            (/\ last'.op = "list_inbox" /\ last'.account = a /\ ~last'.fresh
             /\ InboxSyncKey(a) \in DOMAIN cache_meta
             /\ now - cache_meta[InboxSyncKey(a)] < inbox_freshness_min * MinuteSeconds) =>
                /\ last'.status = "ok" /\ last'.from_cache
                /\ UNCHANGED <<sessions, server, server_folders, messages, cache_meta>>]_vars

\* a list_inbox of the Archive folder was answered from the store, one
\* second short of inbox_freshness_min after a sync of the account, while
\* another account had never been synced
C38_Witness ==
    /\ last.op = "list_inbox" /\ last.status = "ok" /\ last.from_cache
    /\ last.from_folder = "Archive"
    /\ now - cache_meta[InboxSyncKey(last.account)] = inbox_freshness_min * MinuteSeconds - 1
    /\ \E b \in Accounts : InboxSyncKey(b) \notin DOMAIN cache_meta

\* a call that reached _validate_confirmation_token: the direct call, and
\* step 2 of clerk_send on a draft that exists, with a token
TokenChecked ==
    \/ last'.op = "validate"
    \/ last'.op = "clerk_send" /\ last'.step = 2 /\ last'.validation # "none"

\* C39: a failed token check does not consume the token.  A check of a draft
\* that has an unexpired entry with another token string answers "invalid
\* token" and leaves the entry as it was, so that a check with the stored
\* token at any time up to the expiry passes; and a check removes the entry
\* of its draft only when it passes or when the entry has expired.
C39_FailedCheckKeepsToken ==
    [][LET d == last'.draft_id
       IN /\ (/\ TokenChecked /\ d \in DOMAIN tokens
              /\ ~(now > tokens[d].expiry) /\ last'.token # tokens[d].token) =>
                 /\ last'.error = "invalid_token"
                 /\ last'.validation = "failed"
                 /\ d \in DOMAIN tokens' /\ tokens'[d] = tokens[d]
                 /\ \A t \in TokenTimes :
                       (t >= now /\ ~(t > tokens[d].expiry)) =>
                          validate_confirmation_token(tokens', d, tokens[d].token, t).valid
          /\ (TokenChecked /\ d \in DOMAIN tokens /\ d \notin DOMAIN tokens') =>
                 \/ last'.validation = "passed"
                 \/ now > tokens[d].expiry]_vars

\* a wrong token was refused some time after the issue and the entry of the
\* draft is still there, unexpired
C39_Witness ==
    /\ last.op \in {"validate", "clerk_send"}
    /\ last.error = "invalid_token"
    /\ last.draft_id \in DOMAIN tokens
    /\ tokens[last.draft_id].token # last.token
    /\ now > tokens[last.draft_id].expiry - CONFIRMATION_TOKEN_EXPIRY_SECONDS
    /\ ~(now > tokens[last.draft_id].expiry)

\* ------------------------------------------------- drafts that come back
\* One draft created, updated, deleted and sent, over the rate window.
NextRedraft ==
    \/ Tick(RateTimes)
    \/ /\ next_draft < MaxSendDrafts
       /\ \E c \in CleanContents : CreateDraft(default_account, c)
    \/ \E d \in SendDraftIds, c \in CleanContents : UpdateDraft(d, default_account, c)
    \/ \E d \in SendDraftIds : DeleteDraft(d)
    \/ \E d \in SendDraftIds :
          SendDraft(d, None, RateTimes) /\ next_msgid' <= MaxDispatch

SpecRedraft == Init /\ [][NextRedraft]_vars

\* C40: DraftManager.update is an insert-or-replace keyed by draft_id.  An
\* update of a Draft whose row is gone (deleted, or sent) puts the row back
\* under the same draft_id without a create: no new id is given, and
\* send_draft finds the draft again.
C40_UpdateRecreates ==
    [][(last'.op = "update" /\ last'.draft_id \notin DOMAIN drafts) =>
         /\ last'.draft_id \in DOMAIN drafts'
         /\ drafts'[last'.draft_id].draft_id = last'.draft_id
         /\ next_draft' = next_draft
         /\ \A d \in DOMAIN drafts : d \in DOMAIN drafts' /\ drafts'[d] = drafts[d]]_vars

\* the one draft ever created was sent twice: sent, put back by an update,
\* and sent again
C40_Witness ==
    /\ last.op = "send_draft" /\ last.status = "sent"
    /\ next_draft = 1
    /\ Len(send_log) = 2
    /\ drafts = <<>>

====
